---- MODULE Spec2Model ----
(***************************************************************************)
(* Model of the log-event detector of user-session-monitor:                *)
(* internal/monitor/monitor.go (Start, Stop, monitor, processLine,         *)
(* isRecentLogout, recordLogout), internal/event (Bus) and the Notifier     *)
(* Manager (NotifyManager).                                                *)
(*                                                                         *)
(* The specifications share the actions: Spec is the detector following a  *)
(* log, LifeSpec (FairLifeSpec with scheduling fairness) starts and stops  *)
(* it, BusSpec is the Bus used alone by two subscribers, MixedSpec reads   *)
(* lines that hold the text of several patterns, NotifySpec                *)
(* (FairNotifySpec) is the Notifier Manager behind a Bus, LockSpec follows *)
(* isRecentLogout and recordLogout lock call by lock call, DrainSpec       *)
(* (FairDrainSpec) lets the clock run until every cleanup goroutine has    *)
(* woken up, SamplerSpec (FairSamplerSpec) follows the sub-monitors built  *)
(* on BaseMonitor and the calls of Stop step by step, and                  *)
(* InitNotifiersSpec builds the notifier list from any configuration.      *)
(*                                                                         *)
(* Time is a discrete clock in milliseconds that advances in steps of half *)
(* the dedup window.  A log line is modelled as the sequence of the        *)
(* pattern-relevant fragments it contains, left to right; a regular        *)
(* expression finds the leftmost fragment of its own shape.                *)
(***************************************************************************)
EXTENDS Integers, Sequences, FiniteSets, TLC

(* ---------------------------------------------------------------------- *)
(* Bounds                                                                 *)
(* ---------------------------------------------------------------------- *)
\* number of log lines handed to processLine in one run of the detector
MaxLines == 3
\* number of steps the clock makes in one run
MaxTicks == 2
\* number of lines the log file holds when Start is called
MaxOldLines == 1
\* number of lines appended to the log after Start, in a run that starts
\* and stops the detector
MaxNewLines == 1
\* number of Subscribe calls and of Publish calls made on a Bus used alone
MaxSubscribers == 2
MaxPublishes == 3
\* number of lines read from a log whose lines can hold several fragments
MaxMixedLines == 2
\* number of logout lines followed through isRecentLogout and recordLogout
MaxLockLines == 3
\* number of lines read while the DedupRecord is followed until it is empty
MaxDrainLines == 2
\* capacity given to NewBus (100 in cmd/monitor; a parameter of the bus)
bufferSize == 1

(* ---------------------------------------------------------------------- *)
(* Program constants                                                      *)
(* ---------------------------------------------------------------------- *)
\* time.Second, in the clock's unit (milliseconds)
Second == 1000
\* logoutDeduplicationWindow = 5 * time.Second
logoutDeduplicationWindow == 5 * Second
\* one step of the clock: half a window, so that a line can fall strictly
\* inside a window, exactly on its end, and after it
TickLength == logoutDeduplicationWindow \div 2

\* the placeholder literals of processLine
UnknownUser == "unknown_user"
UnknownIP == "unknown_ip"
UnknownPort == "unknown_port"

TypeLogin == "TypeLogin"
TypeLogout == "TypeLogout"

(* ---------------------------------------------------------------------- *)
(* Log lines                                                              *)
(* ---------------------------------------------------------------------- *)
Users == {"alice", "bob"}
\* (ip, port) pairs that occur in the log
Endpoints == {<<"10.0.0.5", "4422">>, <<"10.0.0.6", "4433">>}
\* (username, ip, port) triples that occur in the log
Identities ==
  {<<"alice", "10.0.0.5", "4422">>, <<"alice", "10.0.0.6", "4433">>,
   <<"bob", "10.0.0.5", "4422">>}

\* sshd[N]: Accepted (password|publickey) for U from I port P
Accepted(u, i, p) == [shape |-> "Accepted", user |-> u, ip |-> i, port |-> p]
\* sshd[N]: Received disconnect from I port P:11: disconnected by user
ReceivedDisconnect(i, p) ==
  [shape |-> "ReceivedDisconnect", user |-> "", ip |-> i, port |-> p]
\* sshd[N]: Disconnected from user U I port P
DisconnectedFromUser(u, i, p) ==
  [shape |-> "DisconnectedFromUser", user |-> u, ip |-> i, port |-> p]
\* sshd[N]: pam_unix(sshd:session): session closed for user U
SessionClosed(u) == [shape |-> "SessionClosed", user |-> u, ip |-> "", port |-> ""]

\* the lines fed to the detector: one fragment each, or none (no pattern)
Lines ==
  {<<Accepted(s[1], s[2], s[3])>> : s \in Identities}
  \cup {<<ReceivedDisconnect(e[1], e[2])>> : e \in Endpoints}
  \cup {<<DisconnectedFromUser(s[1], s[2], s[3])>> : s \in Identities}
  \cup {<<SessionClosed(u)>> : u \in Users}
  \cup {<< >>}

\* sshd[N]: Failed password for U from I port P ssh2 (no pattern matches it)
FailedPassword(u, i, p) ==
  [shape |-> "FailedPassword", user |-> u, ip |-> i, port |-> p]

\* fragments that name different users and endpoints, so that the fragment
\* a line was resolved by can be told from the identity it was resolved to
MixedFragments ==
  {Accepted("alice", "10.0.0.5", "4422"),
   ReceivedDisconnect("10.0.0.6", "4433"),
   DisconnectedFromUser("bob", "10.0.0.5", "4422"),
   SessionClosed("alice"),
   FailedPassword("bob", "10.0.0.6", "4433")}

\* lines of the log that hold the text of up to two patterns, in either
\* order (the patterns are not anchored), or text that no pattern matches
MixedLines ==
  {<< >>}
  \cup {<<f>> : f \in MixedFragments}
  \cup {<<p[1], p[2]>> :
          p \in {q \in MixedFragments \X MixedFragments : q[1].shape # q[2].shape}}

(* ---------------------------------------------------------------------- *)
(* Pattern matchers                                                       *)
(* ---------------------------------------------------------------------- *)
\* index of the leftmost fragment of the given shape, 0 if there is none
RECURSIVE FindFrom(_, _, _)
FindFrom(line, shape, i) ==
  IF i > Len(line) THEN 0
  ELSE IF line[i].shape = shape THEN i
  ELSE FindFrom(line, shape, i + 1)

\* regexp.FindStringSubmatch: << whole match, capture groups... >> or << >>
FindStringSubmatch(shape, line) ==
  LET i == FindFrom(line, shape, 1) IN
  IF i = 0 THEN << >>
  ELSE LET f == line[i] IN
    CASE shape = "Accepted" -> <<"m", f.user, f.ip, f.port>>
      [] shape = "ReceivedDisconnect" -> <<"m", f.ip, f.port>>
      [] shape = "DisconnectedFromUser" -> <<"m", f.user, f.ip, f.port>>
      [] shape = "SessionClosed" -> <<"m", f.user>>

loginPattern == "Accepted"
\* the logout patterns tried in the opposite order
logoutPatterns_Reversed == <<"SessionClosed", "DisconnectedFromUser", "ReceivedDisconnect">>
logoutPatterns == <<"ReceivedDisconnect", "DisconnectedFromUser", "SessionClosed">>

\* strings.Contains(line, "Received disconnect")
ContainsReceivedDisconnect(line) == FindFrom(line, "ReceivedDisconnect", 1) # 0

\* index of the first logout pattern that matches the line, 0 if none does
RECURSIVE FirstLogoutPattern(_, _)
FirstLogoutPattern(line, k) ==
  IF k > Len(logoutPatterns) THEN 0
  ELSE IF Len(FindStringSubmatch(logoutPatterns[k], line)) > 0 THEN k
  ELSE FirstLogoutPattern(line, k + 1)

(* ---------------------------------------------------------------------- *)
(* Maps                                                                   *)
(* ---------------------------------------------------------------------- *)
EmptyMap == [k \in {} |-> 0]
MapPut(m, key, val) == [k \in (DOMAIN m) \cup {key} |-> IF k = key THEN val ELSE m[k]]
MapDelete(m, key) == [k \in (DOMAIN m) \ {key} |-> m[k]]

\* fmt.Sprintf("%s:%s:%s", username, ip, port)
makeLoginKey(username, ip, port) == username \o ":" \o ip \o ":" \o port

(* ---------------------------------------------------------------------- *)
(* State                                                                  *)
(* ---------------------------------------------------------------------- *)
VARIABLES
  now,            \* the wall clock, in milliseconds
  loginRecords,   \* Session Table: key -> types.LoginRecord
  logoutRecords,  \* DedupRecord: key -> time of the last recorded logout
  cleanups,       \* sleeping cleanup goroutines of recordLogout: bag of [key, wake]
  eventChan,      \* the buffered channel of the Bus
  pc,             \* the goroutine of Monitor.monitor: "idle" (not started),
                  \* "spawned", "scan" (in scanner.Scan), "send" (blocked in
                  \* Publish), "exited"
  pending,        \* the event the read loop is blocked sending
  published,      \* observation: every event a Publish has put on the channel
  history,        \* observation: one record per line handed to processLine
  fs,             \* the environment Monitor.Start finds (files, configuration)
  logFile,        \* m.logFile
  started,        \* Monitor.Start: "none" (not called), "ok" (returned nil),
                  \* "errPath", "errOpen", "errServer" (returned that error)
  samplers,       \* the sub-monitors that have been started and not stopped
  stopChan,       \* m.stopChan: "open" or "closed"
  cmd,            \* the tail subprocess: "none", "running", "exited", "killed"
  unread,         \* lines tail has yet to print: old (in the file when tail
                  \* started) and new (appended later)
  subs,           \* number of Subscribe calls made on the Bus
  received,       \* per subscriber, the events it has received
  notifiers,      \* NotifyManager.notifiers: notifier -> its IsEnabled()
  tasks,          \* the goroutines the Notifier Manager has started, one per
                  \* notifier and event: [notifier, event, method, state]
  mutex,          \* logoutRecordMutex: the tasks that hold it, [writer, readers]
  tpc,            \* the tasks that use the DedupRecord, each with its position
                  \* in isRecentLogout / recordLogout: task -> [at, id, wake]
  base,           \* the BaseMonitor of each sub-monitor Start has created:
                  \* name -> [stopChan, wg, pc, samples]
  stopCall,       \* the calls of Monitor.Stop: [n, pc, i], the number of calls
                  \* begun, where the last one is, and the sub-monitor it is at
  notifierConfigs, \* what InitNotifiers finds for each notifier type:
                  \* type -> [enabled, creates, test]
  initErr         \* InitNotifiers: "none" (not called), "nil", "err"

\* the variables only Start and Stop write
envVars == <<fs, logFile, started, samplers, stopChan>>
\* the subscribers' side of the Bus
busVars == <<subs, received>>
\* what InitNotifiers reads and returns
initVars == <<notifierConfigs, initErr>>
\* the Notifier Manager
notifyVars == <<notifiers, tasks, notifierConfigs, initErr>>
\* the tasks inside isRecentLogout and recordLogout, and their mutex
lockVars == <<mutex, tpc>>
\* the sub-monitor goroutines and the caller of Monitor.Stop
baseVars == <<base, stopCall>>

vars ==
  <<now, loginRecords, logoutRecords, cleanups, eventChan, pc, pending,
    published, history, fs, logFile, started, samplers, stopChan, cmd, unread,
    subs, received, notifiers, tasks, mutex, tpc, base, stopCall,
    notifierConfigs, initErr>>

\* an unlocked sync.RWMutex
FreeMutex == [writer |-> {}, readers |-> {}]

\* the Notifier Manager as NewNotifyManager leaves it (an empty list), and
\* the DedupRecord with no task inside isRecentLogout or recordLogout
InitIdle == notifierConfigs = EmptyMap /\ initErr = "none"
NotifyIdle == notifiers = EmptyMap /\ tasks = {} /\ InitIdle
LockIdle == mutex = FreeMutex /\ tpc = EmptyMap

\* Monitor.Stop not called
NoStopCall == [n |-> 0, pc |-> "none", i |-> 0]

\* the sub-monitor goroutines left out of the picture
BaseIdle == base = EmptyMap /\ stopCall = NoStopCall

NoEvent == [Type |-> "none", Username |-> "", IP |-> "", Port |-> "", Timestamp |-> 0]

\* types.Event (ServerInfo left out: it does not influence the detector)
Event(type, username, ip, port, t) ==
  [Type |-> type, Username |-> username, IP |-> ip, Port |-> port, Timestamp |-> t]

\* types.LoginRecord built with ip and port in each other's field
LoginRecord_SwappedFields(username, ip, port, t) ==
  [Username |-> username, Ip |-> port, Port |-> ip, LastLoginTime |-> t]

\* types.LoginRecord
LoginRecord(username, ip, port, t) ==
  [Username |-> username, Ip |-> ip, Port |-> port, LastLoginTime |-> t]

(* ---------------------------------------------------------------------- *)
(* Session correlation                                                    *)
(* ---------------------------------------------------------------------- *)
\* the "Received disconnect" lookup without the fallback to the placeholder
LookupByEndpoint_NoSentinel(records, ip, port) ==
  LET found == {k \in DOMAIN records : records[k].Ip = ip /\ records[k].Port = port}
  IN IF found = {} THEN {""}
     ELSE {records[k].Username : k \in found}

\* the "Received disconnect" lookup taking the first record without
\* comparing its ip and port
LookupByEndpoint_AnyRecord(records, ip, port) ==
  IF DOMAIN records = {} THEN {UnknownUser}
  ELSE {records[k].Username : k \in DOMAIN records}

\* the range loop over loginRecords of the "Received disconnect" case: Go
\* iterates a map in an unspecified order, so any matching record may be
\* the first one found.  The set of usernames the loop can end with.
LookupByEndpoint(records, ip, port) ==
  LET found == {k \in DOMAIN records : records[k].Ip = ip /\ records[k].Port = port}
  IN IF found = {} THEN {UnknownUser}
     ELSE {records[k].Username : k \in found}

\* the "session closed" lookup with the port placeholder forgotten
LookupByUsername_NoPortSentinel(records, username) ==
  LET found == {k \in DOMAIN records : records[k].Username = username}
  IN IF found = {} THEN {<<UnknownIP, "">>}
     ELSE {<<records[k].Ip, records[k].Port>> : k \in found}

\* the "session closed" lookup without the break: ip and port may come from
\* two different records of the user
LookupByUsername_MixedRecords(records, username) ==
  LET found == {k \in DOMAIN records : records[k].Username = username}
  IN IF found = {} THEN {<<UnknownIP, UnknownPort>>}
     ELSE {<<records[k].Ip, records[m].Port>> : k \in found, m \in found}

\* the range loop of the "session closed" case: the set of <<ip, port>>
\* pairs the loop can end with
LookupByUsername(records, username) ==
  LET found == {k \in DOMAIN records : records[k].Username = username}
  IN IF found = {} THEN {<<UnknownIP, UnknownPort>>}
     ELSE {<<records[k].Ip, records[k].Port>> : k \in found}

Identity(username, ip, port) == [username |-> username, ip |-> ip, port |-> port]

\* the switch of processLine on the submatches of the first matching logout
\* pattern: the identities (username, ip, port) it can resolve
ResolveLogout(line, matches, records) ==
  CASE Len(matches) = 4 ->
         {Identity(matches[2], matches[3], matches[4])}
    [] Len(matches) = 3 /\ ContainsReceivedDisconnect(line) ->
         {Identity(u, matches[2], matches[3]) :
            u \in LookupByEndpoint(records, matches[2], matches[3])}
    [] Len(matches) = 2 ->
         {Identity(matches[2], e[1], e[2]) :
            e \in LookupByUsername(records, matches[2])}
    [] OTHER -> {Identity("", "", "")}

(* ---------------------------------------------------------------------- *)
(* Deduplication                                                          *)
(* ---------------------------------------------------------------------- *)
\* isRecentLogout with the end of the window counted as inside it
isRecentLogout_Inclusive(records, username, ip, port, t) ==
  LET key == makeLoginKey(username, ip, port) IN
  IF key \notin DOMAIN records THEN FALSE
  ELSE t - records[key] <= logoutDeduplicationWindow

\* isRecentLogout, evaluated at time t
isRecentLogout(records, username, ip, port, t) ==
  LET key == makeLoginKey(username, ip, port) IN
  IF key \notin DOMAIN records THEN FALSE
  ELSE t - records[key] < logoutDeduplicationWindow

\* recordLogout: the map write
recordLogout(records, username, ip, port, t) ==
  MapPut(records, makeLoginKey(username, ip, port), t)

\* recordLogout: the goroutine it starts sleeps for the window and then
\* deletes the key
CleanupTask(username, ip, port, t) ==
  [key |-> makeLoginKey(username, ip, port), wake |-> t + logoutDeduplicationWindow]

BagAdd(b, e) == MapPut(b, e, IF e \in DOMAIN b THEN b[e] + 1 ELSE 1)
BagRemove(b, e) == IF b[e] = 1 THEN MapDelete(b, e) ELSE MapPut(b, e, b[e] - 1)

\* the condition of the cleanup turned round: delete when a placeholder remains
ShouldDeleteLogin_SentinelOnly(username, ip) == username = UnknownUser \/ ip = UnknownIP

\* the cleanup at the end of processLine
ShouldDeleteLogin(username, ip) == username # UnknownUser /\ ip # UnknownIP

\* the end of processLine deleting every record of the user
AfterLogoutPublish_ClosesAllOfUser(records, ev) ==
  IF ShouldDeleteLogin(ev.Username, ev.IP)
  THEN [k \in {m \in DOMAIN records : records[m].Username # ev.Username}
          |-> records[k]]
  ELSE records

\* the end of processLine without the delete
AfterLogoutPublish_KeepsEntry(records, ev) == records

AfterLogoutPublish(records, ev) ==
  IF ShouldDeleteLogin(ev.Username, ev.IP)
  THEN MapDelete(records, makeLoginKey(ev.Username, ev.IP, ev.Port))
  ELSE records

(* ---------------------------------------------------------------------- *)
(* Event bus                                                              *)
(* ---------------------------------------------------------------------- *)
\* a send on the buffered channel can proceed only while the buffer has room
CanSend(chan) == Len(chan) < bufferSize

(* ---------------------------------------------------------------------- *)
(* Start-up environment                                                   *)
(* ---------------------------------------------------------------------- *)
\* the path given in the configuration and the path authLogPaths has for
\* the detected distribution
ConfigPath == "/custom/auth.log"
DefaultPath == "/var/log/auth.log"

\* what Start can find: the configured path ("unset": empty string,
\* "missing": os.Stat fails, "present"), the distribution default
\* ("undetected": detectOSType fails, "untabled": no entry in authLogPaths,
\* "missing", "present"), whether the resolved file can be opened, whether
\* the host has a non-loopback IPv4 address, and the number of lines the
\* file holds
FileSystems ==
  [config : {"unset", "missing", "present"},
   default : {"undetected", "untabled", "missing", "present"},
   readable : BOOLEAN,
   addr : BOOLEAN,
   lines : 0..MaxOldLines]

\* the environment of a detector that has started
GoodFileSystem ==
  [config |-> "present", default |-> "present", readable |-> TRUE, addr |-> TRUE,
   lines |-> 0]

\* getAuthLogPath returning the configured path without os.Stat
getAuthLogPath_ConfigUnchecked(f) ==
  IF f.config # "unset" THEN [path |-> ConfigPath, err |-> "nil"]
  ELSE IF f.default = "undetected" THEN [path |-> "", err |-> "osType"]
  ELSE IF f.default = "present" THEN [path |-> DefaultPath, err |-> "nil"]
  ELSE [path |-> "", err |-> "notFound"]

\* getAuthLogPath: the path and the error it returns
getAuthLogPath(f) ==
  IF f.config = "present" THEN [path |-> ConfigPath, err |-> "nil"]
  ELSE IF f.default = "undetected" THEN [path |-> "", err |-> "osType"]
  ELSE IF f.default = "present" THEN [path |-> DefaultPath, err |-> "nil"]
  ELSE [path |-> "", err |-> "notFound"]

\* the sub-monitors Start creates, in the order it starts them
Samplers ==
  <<"ServerMonitor", "TCPMonitor", "HeartbeatMonitor", "NetworkMonitor",
    "ProcessMonitor", "SystemMonitor", "HardwareMonitor">>
Range(f) == {f[i] : i \in DOMAIN f}

\* tail -f prints the last ten lines of the file before it follows it
TailDefaultLines == 10
Min(a, b) == IF a < b THEN a ELSE b

\* a Kill that has no effect
Kill_NoEffect(c) == c

\* cmd.Process.Kill()
Kill(c) == IF c = "running" THEN "killed" ELSE c

(* ---------------------------------------------------------------------- *)
(* Initial state                                                          *)
(* ---------------------------------------------------------------------- *)
\* the detector following a log: Start has returned nil, tail has printed
\* what it had to print of the old content, the read loop waits in
\* scanner.Scan and one subscriber listens
Init ==
  /\ now = 0
  /\ loginRecords = EmptyMap
  /\ logoutRecords = EmptyMap
  /\ cleanups = EmptyMap
  /\ eventChan = << >>
  /\ pc = "scan"
  /\ pending = NoEvent
  /\ published = << >>
  /\ history = << >>
  /\ fs = GoodFileSystem
  /\ logFile = ConfigPath
  /\ started = "ok"
  /\ samplers = Range(Samplers)
  /\ stopChan = "open"
  /\ cmd = "running"
  /\ unread = [old |-> 0, new |-> MaxLines]
  /\ subs = 1
  /\ received = << << >> >>
  /\ NotifyIdle
  /\ LockIdle
  /\ BaseIdle

\* what is observed of one call of processLine: the line, the time, the
\* path taken ("login", "logout", "duplicate", "nosrv" when getServerInfo
\* failed, "ignored"), the identity the line was resolved to, and the two
\* maps and the number of published events as they were when the call began
Observation(line, result, id) ==
  [line |-> line, at |-> now, result |-> result, id |-> id,
   records |-> loginRecords, dedup |-> logoutRecords, npub |-> Len(published),
   old |-> unread.old > 0, stopped |-> stopChan = "closed"]

\* the read loop after processLine has returned: the select takes the stop
\* case when stopChan is closed, and the deferred function kills tail;
\* otherwise the default case calls scanner.Scan again
LoopBack ==
  /\ pc' = IF stopChan = "closed" THEN "exited" ELSE "scan"
  /\ cmd' = IF stopChan = "closed" THEN Kill(cmd) ELSE cmd

(* ---------------------------------------------------------------------- *)
(* processLine                                                            *)
(* ---------------------------------------------------------------------- *)
\* Bus.Publish called from processLine with the Session Table as it is at
\* the call, and the rest of processLine after it: the send completes at once
\* when the buffer has room, otherwise the read loop blocks in it
Publish(ev, table) ==
  IF CanSend(eventChan)
  THEN /\ eventChan' = Append(eventChan, ev)
       /\ published' = Append(published, ev)
       /\ loginRecords' = IF ev.Type = TypeLogout
                          THEN AfterLogoutPublish(table, ev)
                          ELSE table
       /\ LoopBack
       /\ pending' = NoEvent
  ELSE /\ pc' = "send"
       /\ pending' = ev
       /\ loginRecords' = table
       /\ UNCHANGED <<eventChan, published, cmd>>

\* processLine on a login line publishing the event also when getServerInfo
\* has returned an error
ProcessLogin_PublishesWithoutServerInfo(line, matches, srvOk) ==
  LET username == matches[2]
      ip == matches[3]
      port == matches[4]
      recorded == MapPut(loginRecords, makeLoginKey(username, ip, port),
                         LoginRecord(username, ip, port, now))
      ev == Event(TypeLogin, username, ip, port, now)
  IN /\ UNCHANGED <<now, logoutRecords, cleanups>>
     /\ history' = Append(history, Observation(line, IF srvOk THEN "login" ELSE "nosrv",
                                               Identity(username, ip, port)))
     /\ Publish(ev, recorded)

\* processLine on a login line publishing nothing when the Session Table
\* already holds the key
ProcessLogin_SkipsKnownKey(line, matches, srvOk) ==
  LET username == matches[2]
      ip == matches[3]
      port == matches[4]
      recorded == MapPut(loginRecords, makeLoginKey(username, ip, port),
                         LoginRecord(username, ip, port, now))
      ev == Event(TypeLogin, username, ip, port, now)
  IN /\ UNCHANGED <<now, logoutRecords, cleanups>>
     /\ IF srvOk /\ makeLoginKey(username, ip, port) \notin DOMAIN loginRecords
        THEN /\ history' = Append(history, Observation(line, "login",
                                                       Identity(username, ip, port)))
             /\ Publish(ev, recorded)
        ELSE /\ history' = Append(history, Observation(line,
                                                       IF srvOk THEN "login" ELSE "nosrv",
                                                       Identity(username, ip, port)))
             /\ loginRecords' = recorded
             /\ LoopBack
             /\ UNCHANGED <<eventChan, published, pending>>

\* a line matching loginPattern; srvOk: getServerInfo returned no error
ProcessLogin(line, matches, srvOk) ==
  LET username == matches[2]
      ip == matches[3]
      port == matches[4]
      recorded == MapPut(loginRecords, makeLoginKey(username, ip, port),
                         LoginRecord(username, ip, port, now))
      ev == Event(TypeLogin, username, ip, port, now)
  IN /\ UNCHANGED <<now, logoutRecords, cleanups>>
     /\ IF srvOk
        THEN /\ history' = Append(history, Observation(line, "login",
                                                       Identity(username, ip, port)))
             /\ Publish(ev, recorded)
        ELSE /\ history' = Append(history, Observation(line, "nosrv",
                                                       Identity(username, ip, port)))
             /\ loginRecords' = recorded
             /\ LoopBack
             /\ UNCHANGED <<eventChan, published, pending>>

\* processLine on a logout line that writes the time of a suppressed line
\* into the DedupRecord
ProcessLogout_RefreshesOnDuplicate(line, id, srvOk) ==
  LET ev == Event(TypeLogout, id.username, id.ip, id.port, now) IN
  IF isRecentLogout(logoutRecords, id.username, id.ip, id.port, now)
  THEN /\ history' = Append(history, Observation(line, "duplicate", id))
       /\ LoopBack
       /\ logoutRecords' = recordLogout(logoutRecords, id.username, id.ip, id.port, now)
       /\ UNCHANGED <<now, loginRecords, cleanups, eventChan, pending, published>>
  ELSE /\ logoutRecords' = recordLogout(logoutRecords, id.username, id.ip, id.port, now)
       /\ cleanups' = BagAdd(cleanups, CleanupTask(id.username, id.ip, id.port, now))
       /\ UNCHANGED now
       /\ IF srvOk
          THEN /\ history' = Append(history, Observation(line, "logout", id))
               /\ Publish(ev, loginRecords)
          ELSE /\ history' = Append(history, Observation(line, "nosrv", id))
               /\ LoopBack
               /\ UNCHANGED <<loginRecords, eventChan, pending, published>>

\* a line matching a logout pattern, resolved to identity id
ProcessLogout(line, id, srvOk) ==
  LET ev == Event(TypeLogout, id.username, id.ip, id.port, now) IN
  IF isRecentLogout(logoutRecords, id.username, id.ip, id.port, now)
  THEN /\ history' = Append(history, Observation(line, "duplicate", id))
       /\ LoopBack
       /\ UNCHANGED <<now, loginRecords, logoutRecords, cleanups, eventChan,
                      pending, published>>
  ELSE /\ logoutRecords' = recordLogout(logoutRecords, id.username, id.ip, id.port, now)
       /\ cleanups' = BagAdd(cleanups, CleanupTask(id.username, id.ip, id.port, now))
       /\ UNCHANGED now
       /\ IF srvOk
          THEN /\ history' = Append(history, Observation(line, "logout", id))
               /\ Publish(ev, loginRecords)
          ELSE /\ history' = Append(history, Observation(line, "nosrv", id))
               /\ LoopBack
               /\ UNCHANGED <<loginRecords, eventChan, pending, published>>

\* a line no pattern matches handled by forgetting the Session Table
ProcessIgnored_DropsTable(line) ==
  /\ history' = Append(history, Observation(line, "ignored", Identity("", "", "")))
  /\ LoopBack
  /\ loginRecords' = EmptyMap
  /\ UNCHANGED <<now, logoutRecords, cleanups, eventChan, pending, published>>

\* a line no pattern matches
ProcessIgnored(line) ==
  /\ history' = Append(history, Observation(line, "ignored", Identity("", "", "")))
  /\ LoopBack
  /\ UNCHANGED <<now, loginRecords, logoutRecords, cleanups, eventChan,
                 pending, published>>

\* the lines tail has yet to print, after it has printed one: the old
\* content comes first
Consume(u) ==
  IF u.old > 0 THEN [u EXCEPT !.old = @ - 1] ELSE [u EXCEPT !.new = @ - 1]

\* Monitor.processLine: the login pattern first, then the logout patterns in
\* their order, the first one that matches deciding; srvOk: getServerInfo
\* returns no error
processLine(line, srvOk) ==
  LET login == FindStringSubmatch(loginPattern, line)
      k == FirstLogoutPattern(line, 1)
  IN IF Len(login) > 0
     THEN ProcessLogin(line, login, srvOk)
     ELSE IF k # 0
     THEN \E id \in ResolveLogout(line, FindStringSubmatch(logoutPatterns[k], line),
                                  loginRecords) :
            ProcessLogout(line, id, srvOk)
     ELSE ProcessIgnored(line)

\* one turn of the read loop: scanner.Scan returns the next line tail
\* prints, one of the given lines, Monitor.processLine handles it, and the
\* loop comes back to its select
ReadLoopTurn(lines) ==
  /\ pc = "scan"
  /\ cmd = "running"
  /\ unread.old + unread.new > 0
  /\ unread' = Consume(unread)
  /\ UNCHANGED <<envVars, busVars,
                 notifyVars, lockVars, baseVars>>
  /\ \E line \in lines, srvOk \in BOOLEAN : processLine(line, srvOk)

\* a turn of the read loop on a line that holds at most one fragment
ProcessLine == ReadLoopTurn(Lines)

\* the send the read loop was blocked in completes; processLine runs on to
\* its end
SendUnblocked ==
  /\ pc = "send"
  /\ CanSend(eventChan)
  /\ Publish(pending, loginRecords)
  /\ UNCHANGED <<now, logoutRecords, cleanups, history, unread, envVars, busVars,
                 notifyVars, lockVars, baseVars>>

(* ---------------------------------------------------------------------- *)
(* The other tasks                                                        *)
(* ---------------------------------------------------------------------- *)
\* a cleanup goroutine wakes up after its sleep and deletes its key
CleanupFire ==
  \E c \in DOMAIN cleanups :
    /\ now >= c.wake
    /\ logoutRecords' = MapDelete(logoutRecords, c.key)
    /\ cleanups' = BagRemove(cleanups, c)
    /\ UNCHANGED <<now, loginRecords, eventChan, pc, pending, published, history,
                   cmd, unread, envVars, busVars,
                 notifyVars, lockVars, baseVars>>

\* a subscriber that is handed the events newest first
Receive_Reversed ==
  /\ eventChan # << >>
  /\ \E s \in 1..subs :
       received' = [received EXCEPT ![s] = <<Head(eventChan)>> \o @]
  /\ eventChan' = Tail(eventChan)
  /\ UNCHANGED <<now, loginRecords, logoutRecords, cleanups, pc, pending,
                 published, history, cmd, unread, envVars, subs,
                 notifyVars, lockVars, baseVars>>

\* a subscriber (the goroutine of NotifyManager.Start) receives the next
\* event from the channel Subscribe gave it
Receive ==
  /\ eventChan # << >>
  /\ \E s \in 1..subs :
       received' = [received EXCEPT ![s] = Append(@, Head(eventChan))]
  /\ eventChan' = Tail(eventChan)
  /\ UNCHANGED <<now, loginRecords, logoutRecords, cleanups, pc, pending,
                 published, history, cmd, unread, envVars, subs,
                 notifyVars, lockVars, baseVars>>

\* time passes
Tick ==
  /\ now < MaxTicks * TickLength
  /\ now' = now + TickLength
  /\ UNCHANGED <<loginRecords, logoutRecords, cleanups, eventChan, pc, pending,
                 published, history, cmd, unread, envVars, busVars,
                 notifyVars, lockVars, baseVars>>

Next == ProcessLine \/ SendUnblocked \/ CleanupFire \/ Receive \/ Tick

Spec == Init /\ [][Next]_vars

(* ---------------------------------------------------------------------- *)
(* Start and Stop                                                         *)
(* ---------------------------------------------------------------------- *)
\* Monitor.Start going on when getServerInfo returns an error
StartResult_IgnoresServerError(f, exists) ==
  IF getAuthLogPath(f).err # "nil" THEN "errPath"
  ELSE IF ~exists THEN "errPath"
  ELSE IF ~f.readable THEN "errOpen"
  ELSE "ok"

\* what Monitor.Start returns: exists is the outcome of its own os.Stat of
\* the resolved path; getServerInfo fails when the host has no non-loopback
\* IPv4 address
StartResult(f, exists) ==
  IF getAuthLogPath(f).err # "nil" THEN "errPath"
  ELSE IF ~exists THEN "errPath"
  ELSE IF ~f.readable THEN "errOpen"
  ELSE IF ~f.addr THEN "errServer"
  ELSE "ok"

\* the sub-monitors Start has started when it returns
StartedSamplers(result) ==
  CASE result = "ok" -> Range(Samplers)
    [] result = "errServer" -> {Samplers[1]}
    [] OTHER -> {}

\* Monitor.Start
Start ==
  /\ started = "none"
  /\ \E exists \in BOOLEAN :
       LET result == StartResult(fs, exists) IN
       /\ started' = result
       /\ logFile' = IF getAuthLogPath(fs).err = "nil"
                     THEN getAuthLogPath(fs).path ELSE logFile
       /\ samplers' = StartedSamplers(result)
       /\ pc' = IF result = "ok" THEN "spawned" ELSE pc
  /\ UNCHANGED <<now, loginRecords, logoutRecords, cleanups, eventChan, pending,
                 published, history, fs, stopChan, cmd, unread, busVars,
                 notifyVars, lockVars, baseVars>>

\* Monitor.monitor started again after its loop has returned
MonitorBegin_Restarts ==
  /\ pc \in {"spawned", "exited"}
  /\ started = "ok"
  /\ unread' = [old |-> Min(TailDefaultLines, fs.lines), new |-> unread.new]
  /\ pc' = IF stopChan = "closed" THEN "exited" ELSE "scan"
  /\ cmd' = IF stopChan = "closed" THEN Kill("running") ELSE "running"
  /\ UNCHANGED <<now, loginRecords, logoutRecords, cleanups, eventChan, pending,
                 published, history, envVars, busVars,
                 notifyVars, lockVars, baseVars>>

\* Monitor.monitor from its first statement to its first select: it starts
\* tail -f, which prints the end of the old content and then what is
\* appended; pipeOk: StdoutPipe and cmd.Start returned no error
MonitorBegin ==
  /\ pc = "spawned"
  /\ \E pipeOk \in BOOLEAN :
       IF ~pipeOk
       THEN /\ pc' = "exited"
            /\ UNCHANGED <<cmd, unread>>
       ELSE /\ unread' = [old |-> Min(TailDefaultLines, fs.lines), new |-> MaxNewLines]
            /\ pc' = IF stopChan = "closed" THEN "exited" ELSE "scan"
            /\ cmd' = IF stopChan = "closed" THEN Kill("running") ELSE "running"
  /\ UNCHANGED <<now, loginRecords, logoutRecords, cleanups, eventChan, pending,
                 published, history, envVars, busVars,
                 notifyVars, lockVars, baseVars>>

\* Monitor.Stop emptying the Session Table as well
Stop_ClearsTable ==
  /\ started = "ok"
  /\ stopChan = "open"
  /\ stopChan' = "closed"
  /\ samplers' = {}
  /\ loginRecords' = EmptyMap
  /\ UNCHANGED <<now, logoutRecords, cleanups, eventChan, pc, pending,
                 published, history, fs, logFile, started, cmd, unread, busVars,
                 notifyVars, lockVars, baseVars>>

\* Monitor.Stop, called once after Start has returned nil
Stop ==
  /\ started = "ok"
  /\ stopChan = "open"
  /\ stopChan' = "closed"
  /\ samplers' = {}
  /\ UNCHANGED <<now, loginRecords, logoutRecords, cleanups, eventChan, pc, pending,
                 published, history, fs, logFile, started, cmd, unread, busVars,
                 notifyVars, lockVars, baseVars>>

\* scanner.Scan returns false: the stream has ended because tail is gone, or
\* the scanner has met a read error; the loop returns and the deferred
\* function kills tail
ScanEnds ==
  /\ pc = "scan"
  /\ cmd \in {"running", "exited"}
  /\ pc' = "exited"
  /\ cmd' = Kill(cmd)
  /\ UNCHANGED <<now, loginRecords, logoutRecords, cleanups, eventChan, pending,
                 published, history, unread, envVars, busVars,
                 notifyVars, lockVars, baseVars>>

\* the tail subprocess ends by itself (killed from outside, file system gone)
TailExits ==
  /\ cmd = "running"
  /\ cmd' = "exited"
  /\ UNCHANGED <<now, loginRecords, logoutRecords, cleanups, eventChan, pc, pending,
                 published, history, unread, envVars, busVars,
                 notifyVars, lockVars, baseVars>>

\* the monitor as NewMonitor leaves it, in any start-up environment, with
\* one subscriber on the Bus
LifeInit ==
  /\ now = 0
  /\ loginRecords = EmptyMap
  /\ logoutRecords = EmptyMap
  /\ cleanups = EmptyMap
  /\ eventChan = << >>
  /\ pc = "idle"
  /\ pending = NoEvent
  /\ published = << >>
  /\ history = << >>
  /\ fs \in FileSystems
  /\ logFile = IF fs.config = "unset" THEN "" ELSE ConfigPath
  /\ started = "none"
  /\ samplers = {}
  /\ stopChan = "open"
  /\ cmd = "none"
  /\ unread = [old |-> 0, new |-> 0]
  /\ subs = 1
  /\ received = << << >> >>
  /\ NotifyIdle
  /\ LockIdle
  /\ BaseIdle

LifeNext ==
  \/ Start
  \/ MonitorBegin
  \/ Stop
  \/ ProcessLine
  \/ SendUnblocked
  \/ ScanEnds
  \/ TailExits
  \/ CleanupFire
  \/ Receive
  \/ Tick

LifeSpec == LifeInit /\ [][LifeNext]_vars

\* the goroutines are scheduled: the monitor goroutine reaches its loop, a
\* send that can proceed does, a Scan on an ended stream returns, and the
\* subscriber goroutine receives what is in the channel.  Nothing obliges
\* the log to grow, tail to end or a read to fail.
FairLifeSpec ==
  /\ LifeSpec
  /\ WF_vars(MonitorBegin)
  /\ WF_vars(SendUnblocked)
  /\ WF_vars(cmd = "exited" /\ ScanEnds)
  /\ WF_vars(Receive)

(* ---------------------------------------------------------------------- *)
(* The Bus used alone                                                     *)
(* ---------------------------------------------------------------------- *)
\* the events handed to Publish
BusEvents ==
  {Event(TypeLogin, "alice", "10.0.0.5", "4422", 0),
   Event(TypeLogout, "alice", "10.0.0.5", "4422", 0)}

\* Bus.Subscribe: it returns eb.eventChan itself, so the new subscriber
\* receives from the channel every other subscriber receives from
Subscribe ==
  /\ subs < MaxSubscribers
  /\ subs' = subs + 1
  /\ received' = Append(received, << >>)
  /\ UNCHANGED <<now, loginRecords, logoutRecords, cleanups, eventChan, pc, pending,
                 published, history, cmd, unread, envVars, notifyVars, lockVars, baseVars>>

\* the subscriptions are made before the first Publish
SubscribeBeforePublish == published = << >> /\ Subscribe

\* Bus.Publish called by a publisher of its own: the send proceeds when the
\* buffer has room and waits otherwise
BusPublish ==
  /\ Len(published) < MaxPublishes
  /\ CanSend(eventChan)
  /\ \E ev \in BusEvents :
       /\ eventChan' = Append(eventChan, ev)
       /\ published' = Append(published, ev)
  /\ UNCHANGED <<now, loginRecords, logoutRecords, cleanups, pc, pending, history,
                 cmd, unread, envVars, busVars,
                 notifyVars, lockVars, baseVars>>

\* a Bus as NewBus leaves it, without monitor and without subscriber
BusInit ==
  /\ now = 0
  /\ loginRecords = EmptyMap
  /\ logoutRecords = EmptyMap
  /\ cleanups = EmptyMap
  /\ eventChan = << >>
  /\ pc = "idle"
  /\ pending = NoEvent
  /\ published = << >>
  /\ history = << >>
  /\ fs = GoodFileSystem
  /\ logFile = ConfigPath
  /\ started = "none"
  /\ samplers = {}
  /\ stopChan = "open"
  /\ cmd = "none"
  /\ unread = [old |-> 0, new |-> 0]
  /\ subs = 0
  /\ received = << >>
  /\ NotifyIdle
  /\ LockIdle
  /\ BaseIdle

BusNext == SubscribeBeforePublish \/ BusPublish \/ Receive

BusSpec == BusInit /\ [][BusNext]_vars

(* ---------------------------------------------------------------------- *)
(* A log with lines that hold several fragments                           *)
(* ---------------------------------------------------------------------- *)
\* a turn of the read loop on a line of up to two fragments
ProcessMixedLine == ReadLoopTurn(MixedLines)

\* the detector following such a log
MixedInit ==
  /\ now = 0
  /\ loginRecords = EmptyMap
  /\ logoutRecords = EmptyMap
  /\ cleanups = EmptyMap
  /\ eventChan = << >>
  /\ pc = "scan"
  /\ pending = NoEvent
  /\ published = << >>
  /\ history = << >>
  /\ fs = GoodFileSystem
  /\ logFile = ConfigPath
  /\ started = "ok"
  /\ samplers = Range(Samplers)
  /\ stopChan = "open"
  /\ cmd = "running"
  /\ unread = [old |-> 0, new |-> MaxMixedLines]
  /\ subs = 1
  /\ received = << << >> >>
  /\ NotifyIdle
  /\ LockIdle
  /\ BaseIdle

MixedNext == ProcessMixedLine \/ SendUnblocked \/ CleanupFire \/ Receive \/ Tick

MixedSpec == MixedInit /\ [][MixedNext]_vars

(* ---------------------------------------------------------------------- *)
(* The Notifier Manager                                                   *)
(* ---------------------------------------------------------------------- *)
\* the notifiers InitNotifiers can put in the list
NotifierNames == {"feishu", "dingtalk"}

\* the method the goroutine of a notifier calls for an event
SendMethod(ev) ==
  IF ev.Type = TypeLogin THEN "SendLoginNotification" ELSE "SendLogoutNotification"

\* handleLoginEvent / handleLogoutEvent: one goroutine for every notifier of
\* the list whose IsEnabled() is true; seq numbers the events received
HandOff(list, ev, seq) ==
  {[notifier |-> n, event |-> seq, method |-> SendMethod(ev), state |-> "sending"] :
     n \in {m \in DOMAIN list : list[m]}}

\* the goroutine of NotifyManager.Start going on to the next event only when
\* the sends it has started have returned
HandleEvent_WaitsForSends ==
  /\ eventChan # << >>
  /\ \A t \in tasks : t.state # "sending"
  /\ received' = [received EXCEPT ![1] = Append(@, Head(eventChan))]
  /\ eventChan' = Tail(eventChan)
  /\ tasks' = tasks \cup HandOff(notifiers, Head(eventChan), Len(received[1]) + 1)
  /\ UNCHANGED <<now, loginRecords, logoutRecords, cleanups, pc, pending,
                 published, history, cmd, unread, envVars, subs, notifiers, initVars, lockVars, baseVars>>

\* one turn of the goroutine of NotifyManager.Start: it receives the next
\* event and starts the goroutines that send it; it does not wait for them
HandleEvent ==
  /\ eventChan # << >>
  /\ received' = [received EXCEPT ![1] = Append(@, Head(eventChan))]
  /\ eventChan' = Tail(eventChan)
  /\ tasks' = tasks \cup HandOff(notifiers, Head(eventChan), Len(received[1]) + 1)
  /\ UNCHANGED <<now, loginRecords, logoutRecords, cleanups, pc, pending,
                 published, history, cmd, unread, envVars, subs, notifiers, initVars, lockVars, baseVars>>

\* the send of one goroutine returns, with or without an error (an error
\* is logged); a send that stalls never takes this step
SendReturns ==
  /\ \E t \in tasks, outcome \in {"ok", "err"} :
       /\ t.state = "sending"
       /\ tasks' = (tasks \ {t}) \cup {[t EXCEPT !.state = outcome]}
  /\ UNCHANGED <<now, loginRecords, logoutRecords, cleanups, eventChan, pc, pending,
                 published, history, cmd, unread, envVars, busVars, notifiers, initVars, lockVars, baseVars>>

\* NotifyManager.Stop: the list is dropped; the goroutine of Start goes on
NotifyStop ==
  /\ notifiers # EmptyMap
  /\ notifiers' = EmptyMap
  /\ UNCHANGED <<now, loginRecords, logoutRecords, cleanups, eventChan, pc, pending,
                 published, history, cmd, unread, envVars, busVars, tasks, initVars, lockVars, baseVars>>

\* a Bus with the Notifier Manager subscribed, after InitNotifiers
NotifyInit ==
  /\ now = 0
  /\ loginRecords = EmptyMap
  /\ logoutRecords = EmptyMap
  /\ cleanups = EmptyMap
  /\ eventChan = << >>
  /\ pc = "idle"
  /\ pending = NoEvent
  /\ published = << >>
  /\ history = << >>
  /\ fs = GoodFileSystem
  /\ logFile = ConfigPath
  /\ started = "none"
  /\ samplers = {}
  /\ stopChan = "open"
  /\ cmd = "none"
  /\ unread = [old |-> 0, new |-> 0]
  /\ subs = 1
  /\ received = << << >> >>
  /\ notifiers \in [NotifierNames -> BOOLEAN]
  /\ tasks = {}
  /\ InitIdle
  /\ LockIdle
  /\ BaseIdle

NotifyNext == BusPublish \/ HandleEvent \/ SendReturns \/ NotifyStop

NotifySpec == NotifyInit /\ [][NotifyNext]_vars

\* the goroutine of NotifyManager.Start is scheduled; nothing obliges a send
\* to return
FairNotifySpec == NotifySpec /\ WF_vars(HandleEvent)

(* ---------------------------------------------------------------------- *)
(* InitNotifiers                                                          *)
(* ---------------------------------------------------------------------- *)
\* what InitNotifiers can find for one notifier type: notify.<type>.enabled,
\* whether factory.Create returns a notifier, and how the test message of
\* Initialize ends ("timeout": InitializeWithTest gives up waiting)
NotifierConfigs ==
  [enabled : BOOLEAN, creates : BOOLEAN, test : {"ok", "error", "timeout"}]

\* getEnabledNotifierConfigs
getEnabledNotifierConfigs(configs) == {n \in DOMAIN configs : configs[n].enabled}

\* InitNotifiers appending every notifier it has created
Initialized_KeepsFailedTest(configs) ==
  {n \in getEnabledNotifierConfigs(configs) : configs[n].creates}

\* the notifier types InitNotifiers appends: Create and Initialize both
\* return no error
Initialized(configs) ==
  {n \in getEnabledNotifierConfigs(configs) :
     configs[n].creates /\ configs[n].test = "ok"}

\* NotifyManager.InitNotifiers, called once on a new manager; a notifier
\* whose test message went through reports IsEnabled() true
InitNotifiers ==
  /\ initErr = "none"
  /\ notifiers' = [n \in Initialized(notifierConfigs) |-> TRUE]
  /\ initErr' = IF DOMAIN notifiers' = {} THEN "err" ELSE "nil"
  /\ UNCHANGED <<now, loginRecords, logoutRecords, cleanups, eventChan, pc, pending,
                 published, history, cmd, unread, envVars, busVars, tasks,
                 notifierConfigs, lockVars, baseVars>>

\* NotifyManager.Start is called when InitNotifiers has returned nil: the
\* goroutine that handles the events exists only then
HandleAfterInit == initErr = "nil" /\ HandleEvent

\* a new Notifier Manager and a Bus, in any configuration
InitNotifiersInit ==
  /\ now = 0
  /\ loginRecords = EmptyMap
  /\ logoutRecords = EmptyMap
  /\ cleanups = EmptyMap
  /\ eventChan = << >>
  /\ pc = "idle"
  /\ pending = NoEvent
  /\ published = << >>
  /\ history = << >>
  /\ fs = GoodFileSystem
  /\ logFile = ConfigPath
  /\ started = "none"
  /\ samplers = {}
  /\ stopChan = "open"
  /\ cmd = "none"
  /\ unread = [old |-> 0, new |-> 0]
  /\ subs = 1
  /\ received = << << >> >>
  /\ notifiers = EmptyMap
  /\ tasks = {}
  /\ notifierConfigs \in [NotifierNames -> NotifierConfigs]
  /\ initErr = "none"
  /\ LockIdle
  /\ BaseIdle

InitNotifiersNext ==
  \/ InitNotifiers
  \/ BusPublish
  \/ HandleAfterInit
  \/ SendReturns
  \/ NotifyStop

InitNotifiersSpec == InitNotifiersInit /\ [][InitNotifiersNext]_vars

(* ---------------------------------------------------------------------- *)
(* isRecentLogout and recordLogout, lock by lock                          *)
(* ---------------------------------------------------------------------- *)
\* the read loop's goroutine; the cleanup goroutines are numbered from 1
LineTask == 0

\* RLock granted whoever holds the mutex
CanRLock_IgnoresWriter(m) == TRUE

\* sync.RWMutex: RLock is granted while no task holds the write lock, Lock
\* while no task holds the lock at all
CanRLock(m) == m.writer = {}
CanLock(m) == m.writer = {} /\ m.readers = {}

\* where a task is: "idle" (the read loop outside the two functions),
\* "RLock", "Lock" (about to call it), "read", "write", "delete" (at the
\* map access, between the lock call and the unlock call), "sleep"
TaskAt(at, id, wake) == [at |-> at, id |-> id, wake |-> wake]
NoIdentity == Identity("", "", "")

\* processLine has resolved a logout line to identity id and calls
\* isRecentLogout
CallIsRecentLogout ==
  /\ tpc[LineTask].at = "idle"
  /\ unread.new > 0
  /\ unread' = Consume(unread)
  /\ \E s \in Identities :
       tpc' = [tpc EXCEPT ![LineTask] = TaskAt("RLock", Identity(s[1], s[2], s[3]), 0)]
  /\ UNCHANGED <<now, loginRecords, logoutRecords, cleanups, eventChan, pc, pending,
                 published, history, cmd, envVars, busVars, notifyVars, mutex, baseVars>>

\* isRecentLogout: logoutRecordMutex.RLock()
CheckRLock ==
  /\ tpc[LineTask].at = "RLock"
  /\ CanRLock(mutex)
  /\ mutex' = [mutex EXCEPT !.readers = @ \cup {LineTask}]
  /\ tpc' = [tpc EXCEPT ![LineTask].at = "read"]
  /\ UNCHANGED <<now, loginRecords, logoutRecords, cleanups, eventChan, pc, pending,
                 published, history, cmd, unread, envVars, busVars, notifyVars, baseVars>>

\* isRecentLogout: the map read, RUnlock and the answer; a duplicate ends
\* processLine, otherwise processLine calls recordLogout
CheckRUnlock ==
  /\ tpc[LineTask].at = "read"
  /\ mutex' = [mutex EXCEPT !.readers = @ \ {LineTask}]
  /\ LET id == tpc[LineTask].id IN
     tpc' = IF isRecentLogout(logoutRecords, id.username, id.ip, id.port, now)
            THEN [tpc EXCEPT ![LineTask] = TaskAt("idle", NoIdentity, 0)]
            ELSE [tpc EXCEPT ![LineTask].at = "Lock"]
  /\ UNCHANGED <<now, loginRecords, logoutRecords, cleanups, eventChan, pc, pending,
                 published, history, cmd, unread, envVars, busVars, notifyVars, baseVars>>

\* recordLogout and the cleanup goroutine: logoutRecordMutex.Lock()
AcquireLock ==
  /\ \E t \in DOMAIN tpc :
       /\ tpc[t].at = "Lock"
       /\ CanLock(mutex)
       /\ mutex' = [mutex EXCEPT !.writer = {t}]
       /\ tpc' = [tpc EXCEPT ![t].at = IF t = LineTask THEN "write" ELSE "delete"]
  /\ UNCHANGED <<now, loginRecords, logoutRecords, cleanups, eventChan, pc, pending,
                 published, history, cmd, unread, envVars, busVars, notifyVars, baseVars>>

\* recordLogout: the map write, Unlock and the go statement; the rest of
\* processLine does not use the DedupRecord
RecordUnlock ==
  /\ tpc[LineTask].at = "write"
  /\ mutex' = [mutex EXCEPT !.writer = {}]
  /\ LET id == tpc[LineTask].id
         c == Cardinality(DOMAIN tpc)
     IN /\ logoutRecords' = recordLogout(logoutRecords, id.username, id.ip, id.port, now)
        /\ tpc' = [t \in DOMAIN tpc \cup {c} |->
                     IF t = LineTask THEN TaskAt("idle", NoIdentity, 0)
                     ELSE IF t = c
                     THEN TaskAt("sleep", id, CleanupTask(id.username, id.ip, id.port, now).wake)
                     ELSE tpc[t]]
  /\ UNCHANGED <<now, loginRecords, cleanups, eventChan, pc, pending,
                 published, history, cmd, unread, envVars, busVars, notifyVars, baseVars>>

\* a cleanup goroutine: time.Sleep(logoutDeduplicationWindow) returns
CleanupWakes ==
  /\ \E t \in DOMAIN tpc :
       /\ tpc[t].at = "sleep"
       /\ now >= tpc[t].wake
       /\ tpc' = [tpc EXCEPT ![t].at = "Lock"]
  /\ UNCHANGED <<now, loginRecords, logoutRecords, cleanups, eventChan, pc, pending,
                 published, history, cmd, unread, envVars, busVars, notifyVars, mutex, baseVars>>

\* a cleanup goroutine: the delete, Unlock, and the goroutine ends
CleanupUnlock ==
  /\ \E t \in DOMAIN tpc :
       /\ tpc[t].at = "delete"
       /\ mutex' = [mutex EXCEPT !.writer = {}]
       /\ logoutRecords' = MapDelete(logoutRecords,
                                     makeLoginKey(tpc[t].id.username, tpc[t].id.ip,
                                                  tpc[t].id.port))
       /\ tpc' = [tpc EXCEPT ![t] = TaskAt("done", NoIdentity, 0)]
  /\ UNCHANGED <<now, loginRecords, cleanups, eventChan, pc, pending,
                 published, history, cmd, unread, envVars, busVars, notifyVars, baseVars>>

\* the detector following a log, the read loop outside isRecentLogout and
\* recordLogout, no cleanup goroutine started yet
LockInit ==
  /\ now = 0
  /\ loginRecords = EmptyMap
  /\ logoutRecords = EmptyMap
  /\ cleanups = EmptyMap
  /\ eventChan = << >>
  /\ pc = "scan"
  /\ pending = NoEvent
  /\ published = << >>
  /\ history = << >>
  /\ fs = GoodFileSystem
  /\ logFile = ConfigPath
  /\ started = "ok"
  /\ samplers = Range(Samplers)
  /\ stopChan = "open"
  /\ cmd = "running"
  /\ unread = [old |-> 0, new |-> MaxLockLines]
  /\ subs = 1
  /\ received = << << >> >>
  /\ NotifyIdle
  /\ mutex = FreeMutex
  /\ tpc = [t \in {LineTask} |-> TaskAt("idle", NoIdentity, 0)]
  /\ BaseIdle

LockNext ==
  \/ CallIsRecentLogout
  \/ CheckRLock
  \/ CheckRUnlock
  \/ AcquireLock
  \/ RecordUnlock
  \/ CleanupWakes
  \/ CleanupUnlock
  \/ Tick

LockSpec == LockInit /\ [][LockNext]_vars

(* ---------------------------------------------------------------------- *)
(* The DedupRecord until its cleanup goroutines have all run              *)
(* ---------------------------------------------------------------------- *)
\* time passes while a cleanup goroutine is asleep
SleepTick ==
  /\ \E c \in DOMAIN cleanups : now < c.wake
  /\ now' = now + TickLength
  /\ UNCHANGED <<loginRecords, logoutRecords, cleanups, eventChan, pc, pending,
                 published, history, cmd, unread, envVars, busVars,
                 notifyVars, lockVars, baseVars>>

\* the detector following a log
DrainInit ==
  /\ now = 0
  /\ loginRecords = EmptyMap
  /\ logoutRecords = EmptyMap
  /\ cleanups = EmptyMap
  /\ eventChan = << >>
  /\ pc = "scan"
  /\ pending = NoEvent
  /\ published = << >>
  /\ history = << >>
  /\ fs = GoodFileSystem
  /\ logFile = ConfigPath
  /\ started = "ok"
  /\ samplers = Range(Samplers)
  /\ stopChan = "open"
  /\ cmd = "running"
  /\ unread = [old |-> 0, new |-> MaxDrainLines]
  /\ subs = 1
  /\ received = << << >> >>
  /\ NotifyIdle
  /\ LockIdle
  /\ BaseIdle

DrainNext ==
  \/ ProcessLine
  \/ SendUnblocked
  \/ CleanupFire
  \/ Receive
  \/ Stop
  \/ Tick
  \/ SleepTick

DrainSpec == DrainInit /\ [][DrainNext]_vars

\* the clock advances and a cleanup goroutine whose sleep is over runs; the
\* goroutines are not tied to stopChan
FairDrainSpec == DrainSpec /\ WF_vars(SleepTick) /\ WF_vars(CleanupFire)

(* ---------------------------------------------------------------------- *)
(* The sub-monitors built on BaseMonitor, and Stop called again           *)
(* ---------------------------------------------------------------------- *)
\* number of samples one sub-monitor takes on its ticker
MaxSamples == 1
\* number of times Monitor.Stop is called on one Monitor
MaxStopCalls == 2

\* the sub-monitors followed goroutine by goroutine, in the order
\* Monitor.Start starts them and in the order Monitor.Stop stops them
BaseStartOrder == <<"ServerMonitor", "HeartbeatMonitor", "SystemMonitor">>
BaseStopOrder == <<"SystemMonitor", "HeartbeatMonitor", "ServerMonitor">>
BaseSamplers == Range(BaseStartOrder)

\* ServerMonitor.monitor takes a sample before its loop, the others do not
SamplesAtOnce(s) == s = "ServerMonitor"

\* NewBaseMonitor followed by BaseMonitor.Start: wg.Add(1) and the go
\* statement
NewBaseMonitor == [stopChan |-> "open", wg |-> 1, pc |-> "spawned", samples |-> 0]

\* Monitor.Start creating and starting its next sub-monitor; it returns nil
\* after the last one
BaseStart ==
  /\ started = "none"
  /\ LET k == Cardinality(DOMAIN base) + 1 IN
       /\ base' = base @@ (BaseStartOrder[k] :> NewBaseMonitor)
       /\ started' = IF k = Len(BaseStartOrder) THEN "ok" ELSE started
  /\ UNCHANGED <<now, loginRecords, logoutRecords, cleanups, eventChan, pc, pending,
                 published, history, fs, logFile, samplers, stopChan, cmd, unread,
                 busVars, notifyVars, lockVars, stopCall>>

\* the frame of a step of the goroutine of sub-monitor s
SamplerFrame ==
  UNCHANGED <<now, loginRecords, logoutRecords, cleanups, eventChan, pc, pending,
              published, history, envVars, cmd, unread, busVars, notifyVars,
              lockVars, stopCall>>

\* the goroutine from its first statement to the head of its loop
SamplerBegin(s) ==
  /\ s \in DOMAIN base
  /\ base[s].pc = "spawned"
  /\ base' = [base EXCEPT ![s].pc = "check",
                          ![s].samples = IF SamplesAtOnce(s) THEN @ + 1 ELSE @]
  /\ SamplerFrame

\* if IsStopped() { return }, with the deferred Done
IsStopped(s) ==
  /\ s \in DOMAIN base
  /\ base[s].pc = "check"
  /\ base' = IF base[s].stopChan = "closed"
             THEN [base EXCEPT ![s].pc = "exited", ![s].wg = @ - 1]
             ELSE [base EXCEPT ![s].pc = "select"]
  /\ SamplerFrame

\* case <-stopChan: return, with the deferred Done
SelectStop(s) ==
  /\ s \in DOMAIN base
  /\ base[s].pc = "select"
  /\ base[s].stopChan = "closed"
  /\ base' = [base EXCEPT ![s].pc = "exited", ![s].wg = @ - 1]
  /\ SamplerFrame

\* case <-ticker.C: a sample is taken; select takes this case also when the
\* stop channel is closed, if the ticker has fired
SelectTick(s) ==
  /\ s \in DOMAIN base
  /\ base[s].pc = "select"
  /\ base[s].samples < MaxSamples + (IF SamplesAtOnce(s) THEN 1 ELSE 0)
  /\ base' = [base EXCEPT ![s].pc = "check", ![s].samples = @ + 1]
  /\ SamplerFrame

\* Monitor.Stop with a guard that makes a repeated call return at once
StopCallBegin_Guarded ==
  /\ started = "ok"
  /\ stopCall.pc \in {"none", "returned"}
  /\ stopCall.n < MaxStopCalls
  /\ IF stopChan = "closed"
     THEN /\ stopCall' = [stopCall EXCEPT !.n = @ + 1, !.pc = "returned"]
          /\ UNCHANGED stopChan
     ELSE /\ stopChan' = "closed"
          /\ stopCall' = [n |-> stopCall.n + 1, pc |-> "close", i |-> 1]
  /\ UNCHANGED <<now, loginRecords, logoutRecords, cleanups, eventChan, pc, pending,
                 published, history, fs, logFile, started, samplers, cmd, unread,
                 busVars, notifyVars, lockVars, base>>

\* a call of Monitor.Stop, first statement: close(m.stopChan), which panics
\* on a closed channel
StopCallBegin ==
  /\ started = "ok"
  /\ stopCall.pc \in {"none", "returned"}
  /\ stopCall.n < MaxStopCalls
  /\ IF stopChan = "closed"
     THEN /\ stopCall' = [stopCall EXCEPT !.n = @ + 1, !.pc = "panicked"]
          /\ UNCHANGED stopChan
     ELSE /\ stopChan' = "closed"
          /\ stopCall' = [n |-> stopCall.n + 1, pc |-> "close", i |-> 1]
  /\ UNCHANGED <<now, loginRecords, logoutRecords, cleanups, eventChan, pc, pending,
                 published, history, fs, logFile, started, samplers, cmd, unread,
                 busVars, notifyVars, lockVars, base>>

\* the frame of a step inside BaseMonitor.Stop
BaseStopFrame ==
  UNCHANGED <<now, loginRecords, logoutRecords, cleanups, eventChan, pc, pending,
              published, history, fs, logFile, started, stopChan, cmd, unread,
              busVars, notifyVars, lockVars>>

\* BaseMonitor.Stop of the sub-monitor Monitor.Stop is at: close(b.stopChan)
BaseStopClose ==
  /\ stopCall.pc = "close"
  /\ LET s == BaseStopOrder[stopCall.i] IN
       IF base[s].stopChan = "closed"
       THEN /\ stopCall' = [stopCall EXCEPT !.pc = "panicked"]
            /\ UNCHANGED base
       ELSE /\ base' = [base EXCEPT ![s].stopChan = "closed"]
            /\ stopCall' = [stopCall EXCEPT !.pc = "wait"]
  /\ UNCHANGED samplers
  /\ BaseStopFrame

\* BaseMonitor.Stop returning at once, without b.wg.Wait()
BaseStopWait_DoesNotWait ==
  /\ stopCall.pc = "wait"
  /\ LET s == BaseStopOrder[stopCall.i] IN
       /\ samplers' = samplers \ {s}
       /\ stopCall' = [stopCall EXCEPT
                         !.i = @ + 1,
                         !.pc = IF stopCall.i = Len(BaseStopOrder)
                                THEN "returned" ELSE "close"]
  /\ UNCHANGED base
  /\ BaseStopFrame

\* BaseMonitor.Stop: b.wg.Wait() returns when the goroutine has called Done;
\* Monitor.Stop goes on to its next sub-monitor or returns
BaseStopWait ==
  /\ stopCall.pc = "wait"
  /\ LET s == BaseStopOrder[stopCall.i] IN
       /\ base[s].wg = 0
       /\ samplers' = samplers \ {s}
       /\ stopCall' = [stopCall EXCEPT
                         !.i = @ + 1,
                         !.pc = IF stopCall.i = Len(BaseStopOrder)
                                THEN "returned" ELSE "close"]
  /\ UNCHANGED base
  /\ BaseStopFrame

\* a Monitor as NewMonitor leaves it, in an environment where Start finds
\* the log and the server identity
SamplerInit ==
  /\ now = 0
  /\ loginRecords = EmptyMap
  /\ logoutRecords = EmptyMap
  /\ cleanups = EmptyMap
  /\ eventChan = << >>
  /\ pc = "idle"
  /\ pending = NoEvent
  /\ published = << >>
  /\ history = << >>
  /\ fs = GoodFileSystem
  /\ logFile = ConfigPath
  /\ started = "none"
  /\ samplers = BaseSamplers
  /\ stopChan = "open"
  /\ cmd = "none"
  /\ unread = [old |-> 0, new |-> 0]
  /\ subs = 1
  /\ received = << << >> >>
  /\ NotifyIdle
  /\ LockIdle
  /\ BaseIdle

SamplerNext ==
  \/ BaseStart
  \/ \E s \in BaseSamplers : SamplerBegin(s)
  \/ \E s \in BaseSamplers : IsStopped(s)
  \/ \E s \in BaseSamplers : SelectStop(s)
  \/ \E s \in BaseSamplers : SelectTick(s)
  \/ StopCallBegin
  \/ BaseStopClose
  \/ BaseStopWait

SamplerSpec == SamplerInit /\ [][SamplerNext]_vars

\* every goroutine that can take a step takes one, and so does the caller
\* of Stop; nothing makes a ticker fire
FairSamplerSpec ==
  /\ SamplerSpec
  /\ \A s \in BaseSamplers :
       WF_vars(SamplerBegin(s) \/ IsStopped(s) \/ SelectStop(s))
  /\ WF_vars(BaseStopClose \/ BaseStopWait)

(* ---------------------------------------------------------------------- *)
(* Reading the observations                                               *)
(* ---------------------------------------------------------------------- *)
NumLines == Len(history)

\* the i-th call of processLine has returned
Returned(i) == i < NumLines \/ pc # "send"

\* the Session Table as the i-th call left it (only processLine writes it)
TableAfter(i) == IF i < NumLines THEN history[i + 1].records ELSE loginRecords

\* the events the i-th call has published
PublishedBy(i) ==
  SubSeq(published, history[i].npub + 1,
         IF i < NumLines THEN history[i + 1].npub ELSE Len(published))

LogoutEvent(s, t) == Event(TypeLogout, s[1], s[2], s[3], t)
LoginEvent(s, t) == Event(TypeLogin, s[1], s[2], s[3], t)
KeyOf(s) == s[1] \o ":" \o s[2] \o ":" \o s[3]
EventKey(ev) == KeyOf(<<ev.Username, ev.IP, ev.Port>>)
IdKey(id) == KeyOf(<<id.username, id.ip, id.port>>)

\* the i-th line was resolved to a logout identity (published, suppressed or
\* dropped for want of the server identity)
IsLogoutLine(i) ==
  /\ history[i].result \in {"logout", "duplicate", "nosrv"}
  /\ history[i].line[1].shape # "Accepted"

\* the DedupRecord held an entry for key younger than the window at time t
WithinWindow(dedup, key, t) ==
  key \in DOMAIN dedup /\ t - dedup[key] < logoutDeduplicationWindow

\* the keys of the records of table with the given endpoint / username
RecordsAt(table, ip, port) ==
  {k \in DOMAIN table : table[k].Ip = ip /\ table[k].Port = port}
RecordsOf(table, username) == {k \in DOMAIN table : table[k].Username = username}

(* ---------------------------------------------------------------------- *)
(* C1                                                                     *)
(* ---------------------------------------------------------------------- *)
\* C1: when a logout line that names the endpoint of the only login of user
\* X ("Received disconnect from Y port Z" or "Disconnected from user X Y
\* port Z") has published its Logout event and the next line, processed
\* within the dedup window, is "session closed for user X", the second line
\* publishes nothing: one Logout event for the two lines.
C1_SecondLogoutSuppressed ==
  \A i \in 1..(NumLines - 1) : \A s \in Identities :
    LET a == history[i]
        b == history[i + 1]
    IN ( /\ a.line \in {<<ReceivedDisconnect(s[2], s[3])>>,
                        <<DisconnectedFromUser(s[1], s[2], s[3])>>}
         /\ RecordsOf(a.records, s[1]) = {KeyOf(s)}
         /\ RecordsAt(a.records, s[2], s[3]) = {KeyOf(s)}
         /\ PublishedBy(i) = <<LogoutEvent(s, a.at)>>
         /\ b.line = <<SessionClosed(s[1])>>
         /\ b.at - a.at < logoutDeduplicationWindow
         /\ Returned(i + 1) )
       => PublishedBy(i + 1) = << >>

(* ---------------------------------------------------------------------- *)
(* C2                                                                     *)
(* ---------------------------------------------------------------------- *)
\* C2: any two published Logout events with the same key (username, ip,
\* port) are at least one dedup window apart.
C2_LogoutsOneWindowApart ==
  \A i, j \in 1..Len(published) :
    ( /\ i < j
      /\ published[i].Type = TypeLogout
      /\ published[j].Type = TypeLogout
      /\ EventKey(published[i]) = EventKey(published[j]) )
    => published[j].Timestamp - published[i].Timestamp >= logoutDeduplicationWindow

(* ---------------------------------------------------------------------- *)
(* C3                                                                     *)
(* ---------------------------------------------------------------------- *)
\* earlier lines with the key of line j whose Logout event was published
EmittedBefore(j) ==
  {i \in 1..(j - 1) : /\ IsLogoutLine(i)
                      /\ IdKey(history[i].id) = IdKey(history[j].id)
                      /\ PublishedBy(i) # << >>}

\* earlier lines with the key of line j that passed the dedup check and were
\* recorded in the DedupRecord
RecordedBefore(j) ==
  {i \in 1..(j - 1) : /\ IsLogoutLine(i)
                      /\ IdKey(history[i].id) = IdKey(history[j].id)
                      /\ history[i].result \in {"logout", "nosrv"}}

LoginEntry(s, t) == [Username |-> s[1], Ip |-> s[2], Port |-> s[3], LastLoginTime |-> t]

C5_DisconnectedPublishedAndRemoved ==
  \A i \in 1..NumLines : \A s \in Identities :
    (history[i].line = <<DisconnectedFromUser(s[1], s[2], s[3])>> /\ Returned(i))
    => /\ PublishedBy(i) = <<LogoutEvent(s, history[i].at)>>
       /\ KeyOf(s) \notin DOMAIN TableAfter(i)

\* C5 (amended): a "Disconnected from user X Y port Z" line publishes no
\* event other than the Logout event (X, Y, Z), whatever the Session Table
\* holds; it publishes it unless the key is inside its dedup window or
\* getServerInfo fails; when it has published it, the Session Table has no
\* entry under (X, Y, Z), and when it has not, the Session Table is as it was.
C5_DisconnectedIdentityFromLine ==
  \A i \in 1..NumLines : \A s \in Identities :
    (history[i].line = <<DisconnectedFromUser(s[1], s[2], s[3])>> /\ Returned(i))
    => /\ PublishedBy(i) \in {<< >>, <<LogoutEvent(s, history[i].at)>>}
       /\ ( /\ ~WithinWindow(history[i].dedup, KeyOf(s), history[i].at)
            /\ history[i].result # "nosrv" )
          <=> PublishedBy(i) # << >>
       /\ PublishedBy(i) # << >> => KeyOf(s) \notin DOMAIN TableAfter(i)
       /\ PublishedBy(i) = << >> => TableAfter(i) = history[i].records

\* a "Disconnected from user" line is published while the table holds the
\* session and another record of the same user or of the same endpoint
C5_Witness ==
  \E i \in 1..NumLines : \E s \in Identities :
    /\ history[i].line = <<DisconnectedFromUser(s[1], s[2], s[3])>>
    /\ Returned(i)
    /\ KeyOf(s) \in DOMAIN history[i].records
    /\ Cardinality(DOMAIN history[i].records) > 1
    /\ PublishedBy(i) = <<LogoutEvent(s, history[i].at)>>
    /\ KeyOf(s) \notin DOMAIN TableAfter(i)

(* ---------------------------------------------------------------------- *)
(* C6                                                                     *)
(* ---------------------------------------------------------------------- *)
\* C6 as stated: a "Received disconnect from Y port Z" line processed when
\* no record has (Y, Z) publishes the Logout event (unknown user, Y, Z).
C6_UnknownUserPublished ==
  \A i \in 1..NumLines : \A e \in Endpoints :
    ( /\ history[i].line = <<ReceivedDisconnect(e[1], e[2])>>
      /\ RecordsAt(history[i].records, e[1], e[2]) = {}
      /\ Returned(i) )
    => PublishedBy(i) = <<LogoutEvent(<<UnknownUser, e[1], e[2]>>, history[i].at)>>

\* C6 (amended): such a line publishes no event other than the Logout event
\* (unknown user, Y, Z), and it publishes it unless that key is inside its
\* dedup window or getServerInfo fails.
C6_UnknownUserUnlessDuplicate ==
  \A i \in 1..NumLines : \A e \in Endpoints :
    LET s == <<UnknownUser, e[1], e[2]>> IN
    ( /\ history[i].line = <<ReceivedDisconnect(e[1], e[2])>>
      /\ RecordsAt(history[i].records, e[1], e[2]) = {}
      /\ Returned(i) )
    => /\ PublishedBy(i) \in {<< >>, <<LogoutEvent(s, history[i].at)>>}
       /\ ( /\ ~WithinWindow(history[i].dedup, KeyOf(s), history[i].at)
            /\ history[i].result # "nosrv" )
          <=> PublishedBy(i) # << >>

\* such a line is published while the table holds sessions of other endpoints
C6_Witness ==
  \E i \in 1..NumLines : \E e \in Endpoints :
    /\ history[i].line = <<ReceivedDisconnect(e[1], e[2])>>
    /\ Returned(i)
    /\ history[i].records # EmptyMap
    /\ RecordsAt(history[i].records, e[1], e[2]) = {}
    /\ PublishedBy(i) = <<LogoutEvent(<<UnknownUser, e[1], e[2]>>, history[i].at)>>

(* ---------------------------------------------------------------------- *)
(* C7                                                                     *)
(* ---------------------------------------------------------------------- *)
\* C7 as stated: a "session closed for user X" line processed when no record
\* has username X publishes the Logout event (X, unknown ip, unknown port).
C7_UnknownEndpointPublished ==
  \A i \in 1..NumLines : \A u \in Users :
    ( /\ history[i].line = <<SessionClosed(u)>>
      /\ RecordsOf(history[i].records, u) = {}
      /\ Returned(i) )
    => PublishedBy(i) = <<LogoutEvent(<<u, UnknownIP, UnknownPort>>, history[i].at)>>

\* C7 (amended): such a line publishes no event other than the Logout event
\* (X, unknown ip, unknown port), and it publishes it unless that key is
\* inside its dedup window or getServerInfo fails.
C7_UnknownEndpointUnlessDuplicate ==
  \A i \in 1..NumLines : \A u \in Users :
    LET s == <<u, UnknownIP, UnknownPort>> IN
    ( /\ history[i].line = <<SessionClosed(u)>>
      /\ RecordsOf(history[i].records, u) = {}
      /\ Returned(i) )
    => /\ PublishedBy(i) \in {<< >>, <<LogoutEvent(s, history[i].at)>>}
       /\ ( /\ ~WithinWindow(history[i].dedup, KeyOf(s), history[i].at)
            /\ history[i].result # "nosrv" )
          <=> PublishedBy(i) # << >>

\* such a line is published while the table holds sessions of other users
C7_Witness ==
  \E i \in 1..NumLines : \E u \in Users :
    /\ history[i].line = <<SessionClosed(u)>>
    /\ Returned(i)
    /\ history[i].records # EmptyMap
    /\ RecordsOf(history[i].records, u) = {}
    /\ PublishedBy(i) = <<LogoutEvent(<<u, UnknownIP, UnknownPort>>, history[i].at)>>

(* ---------------------------------------------------------------------- *)
(* C8                                                                     *)
(* ---------------------------------------------------------------------- *)
\* C8: the Logout event published for a "Received disconnect from Y port Z"
\* line processed while some record has (Y, Z) carries (Y, Z) and the
\* username of a record of the table with that ip and port.
C8_UsernameFromMatchingRecord ==
  \A i \in 1..NumLines : \A e \in Endpoints :
    ( /\ history[i].line = <<ReceivedDisconnect(e[1], e[2])>>
      /\ RecordsAt(history[i].records, e[1], e[2]) # {}
      /\ Returned(i) )
    => \A n \in 1..Len(PublishedBy(i)) :
         LET ev == PublishedBy(i)[n] IN
         /\ ev.Type = TypeLogout /\ ev.IP = e[1] /\ ev.Port = e[2]
         /\ \E k \in RecordsAt(history[i].records, e[1], e[2]) :
              history[i].records[k].Username = ev.Username

\* such a line is published while the table also holds a record of another
\* user at another endpoint
C8_Witness ==
  \E i \in 1..NumLines : \E e \in Endpoints :
    /\ history[i].line = <<ReceivedDisconnect(e[1], e[2])>>
    /\ Returned(i)
    /\ RecordsAt(history[i].records, e[1], e[2]) # {}
    /\ PublishedBy(i) # << >>
    /\ \E k \in DOMAIN history[i].records :
         /\ k \notin RecordsAt(history[i].records, e[1], e[2])
         /\ history[i].records[k].Username # PublishedBy(i)[1].Username

(* ---------------------------------------------------------------------- *)
(* C9                                                                     *)
(* ---------------------------------------------------------------------- *)
\* C9: the Logout event published for a "session closed for user X" line
\* processed while some record has username X carries username X and the ip
\* and port of one and the same record of X.
C9_EndpointFromOneRecord ==
  \A i \in 1..NumLines : \A u \in Users :
    ( /\ history[i].line = <<SessionClosed(u)>>
      /\ RecordsOf(history[i].records, u) # {}
      /\ Returned(i) )
    => \A n \in 1..Len(PublishedBy(i)) :
         LET ev == PublishedBy(i)[n] IN
         /\ ev.Type = TypeLogout /\ ev.Username = u
         /\ \E k \in RecordsOf(history[i].records, u) :
              /\ history[i].records[k].Ip = ev.IP
              /\ history[i].records[k].Port = ev.Port

\* such a line is published while the user has two sessions in the table
C9_Witness ==
  \E i \in 1..NumLines : \E u \in Users :
    /\ history[i].line = <<SessionClosed(u)>>
    /\ Returned(i)
    /\ Cardinality(RecordsOf(history[i].records, u)) = 2
    /\ PublishedBy(i) # << >>

(* ---------------------------------------------------------------------- *)
(* C10                                                                    *)
(* ---------------------------------------------------------------------- *)
\* C10: the Logout event published for a "session closed for user X" line
\* processed while several records have username X carries the ip and port
\* of the record of X with the greatest LastLoginTime.
C10_EndpointFromMostRecentLogin ==
  \A i \in 1..NumLines : \A u \in Users :
    ( /\ history[i].line = <<SessionClosed(u)>>
      /\ Cardinality(RecordsOf(history[i].records, u)) > 1
      /\ Returned(i) )
    => \A n \in 1..Len(PublishedBy(i)) :
         LET ev == PublishedBy(i)[n] IN
         \E k \in RecordsOf(history[i].records, u) :
           /\ history[i].records[k].Ip = ev.IP
           /\ history[i].records[k].Port = ev.Port
           /\ \A m \in RecordsOf(history[i].records, u) :
                history[i].records[m].LastLoginTime
                  <= history[i].records[k].LastLoginTime

(* ---------------------------------------------------------------------- *)
(* C11                                                                    *)
(* ---------------------------------------------------------------------- *)
\* C11: after a logout line has published its event, the Session Table is
\* the table the line found without the entry under the event's key when the
\* username is not the unknown-user placeholder and the ip is not the
\* unknown-ip placeholder, and it is exactly the table the line found when a
\* placeholder remains.
C11_DeleteIffNoSentinel ==
  \A i \in 1..NumLines :
    ( /\ IsLogoutLine(i)
      /\ Returned(i)
      /\ PublishedBy(i) # << >> )
    => LET ev == PublishedBy(i)[1]
           before == history[i].records
       IN IF ev.Username # UnknownUser /\ ev.IP # UnknownIP
          THEN /\ EventKey(ev) \notin DOMAIN TableAfter(i)
               /\ TableAfter(i) = MapDelete(before, EventKey(ev))
          ELSE TableAfter(i) = before

\* one published logout has removed an entry the table held, and another
\* published logout with a placeholder has left a non-empty table as it was
C11_Witness ==
  \E i, j \in 1..NumLines :
    /\ IsLogoutLine(i) /\ Returned(i) /\ PublishedBy(i) # << >>
    /\ EventKey(PublishedBy(i)[1]) \in DOMAIN history[i].records
    /\ EventKey(PublishedBy(i)[1]) \notin DOMAIN TableAfter(i)
    /\ IsLogoutLine(j) /\ Returned(j) /\ PublishedBy(j) # << >>
    /\ ( PublishedBy(j)[1].Username = UnknownUser
         \/ PublishedBy(j)[1].IP = UnknownIP )
    /\ history[j].records # EmptyMap
    /\ TableAfter(j) = history[j].records

(* ---------------------------------------------------------------------- *)
(* C12                                                                    *)
(* ---------------------------------------------------------------------- *)
\* C12: Bus.Publish never blocks the publisher: the read loop is never held
\* inside Publish waiting for room in the subscriber's buffer.
C12_PublishNeverBlocks == pc # "send"

(* ---------------------------------------------------------------------- *)
(* C14                                                                    *)
(* ---------------------------------------------------------------------- *)
\* the events the first k lines call Publish with, in the order of the lines
RECURSIVE EventsOfLines(_)
EventsOfLines(k) ==
  IF k = 0 THEN << >>
  ELSE LET h == history[k] IN
       IF h.result \in {"login", "logout"}
       THEN Append(EventsOfLines(k - 1),
                   Event(IF h.result = "login" THEN TypeLogin ELSE TypeLogout,
                         h.id.username, h.id.ip, h.id.port, h.at))
       ELSE EventsOfLines(k - 1)

C13_EverySubscriberGetsEveryEvent ==
  (subs = 2 /\ eventChan = << >>)
  => /\ received[1] = published
     /\ received[2] = published

(* ---------------------------------------------------------------------- *)
(* C15                                                                    *)
(* ---------------------------------------------------------------------- *)
\* C15: once Stop has closed the stop channel, the read loop eventually
\* exits, whether or not another line is appended to the log.  (Stated for
\* the moments when tail has printed all the old content and the log can
\* still grow: whether it grows is then up to the environment alone.)
C15_StopLeadsToExit ==
  (stopChan = "closed" /\ unread.old = 0 /\ unread.new > 0) ~> (pc = "exited")

(* ---------------------------------------------------------------------- *)
(* C16                                                                    *)
(* ---------------------------------------------------------------------- *)
\* C16: in every state where Stop has returned, the goroutine of
\* Monitor.monitor has exited.
C16_StopReturnsAfterLoopExit == stopChan = "closed" => pc = "exited"

(* ---------------------------------------------------------------------- *)
(* C17                                                                    *)
(* ---------------------------------------------------------------------- *)
\* C17: whenever the read loop has exited, the tail subprocess it started is
\* not running any more.
C17_TailKilledOnExit == pc = "exited" => cmd # "running"

\* the loop has processed a line after Stop, has then taken the stop case and
\* has killed the tail it had started
C17_Witness ==
  /\ pc = "exited"
  /\ cmd = "killed"
  /\ stopChan = "closed"
  /\ \E i \in 1..NumLines : history[i].stopped

(* ---------------------------------------------------------------------- *)
(* C18                                                                    *)
(* ---------------------------------------------------------------------- *)
\* C18: no line that was in the log file when the detector started is
\* handed to processLine.
C18_NoHistoricalLine == \A i \in 1..NumLines : ~history[i].old

(* ---------------------------------------------------------------------- *)
(* C19                                                                    *)
(* ---------------------------------------------------------------------- *)
\* C19: Start resolves the configured path when it exists and otherwise the
\* distribution default; when neither file exists or the resolved file
\* cannot be opened, Start returns an error, and then no sampler, no tail
\* and no read loop has been or will be started.
C19_StartFailsWithoutLog ==
  /\ started \in {"ok", "errOpen", "errServer"} =>
       /\ fs.config = "present" => logFile = ConfigPath
       /\ fs.config # "present" => (fs.default = "present" /\ logFile = DefaultPath)
  /\ started \in {"ok", "errServer"} => fs.readable
  /\ ( /\ started # "none"
       /\ \/ (fs.config # "present" /\ fs.default # "present")
          \/ ~fs.readable )
     => started \in {"errPath", "errOpen"}
  /\ started \in {"errPath", "errOpen"} =>
       /\ samplers = {}
       /\ cmd = "none"
       /\ pc = "idle"
       /\ history = << >>
       /\ published = << >>

\* Start has fallen back to the default path, because the configured file
\* is missing, and has failed to open it
C19_Witness ==
  /\ started = "errOpen"
  /\ fs.config = "missing"
  /\ logFile = DefaultPath
  /\ samplers = {}

(* ---------------------------------------------------------------------- *)
(* C20                                                                    *)
(* ---------------------------------------------------------------------- *)
\* C20: when the host has no non-loopback IPv4 address, Start returns an
\* error, the read loop is never started and no event is ever published.
C20_StartFailsWithoutServerInfo ==
  /\ (started # "none" /\ ~fs.addr) =>
       /\ started \in {"errPath", "errOpen", "errServer"}
       /\ pc = "idle"
       /\ cmd = "none"
       /\ history = << >>
       /\ published = << >>
  /\ started = "errServer" => ~fs.addr

\* Start has found and opened the log file, has started the server sampler
\* and has returned the getServerInfo error
C20_Witness ==
  /\ started = "errServer"
  /\ ~fs.addr
  /\ fs.readable
  /\ samplers = {Samplers[1]}
  /\ pc = "idle"

(* ---------------------------------------------------------------------- *)
(* C21                                                                    *)
(* ---------------------------------------------------------------------- *)
\* C21: once the tail subprocess has died the read loop exits, and a read
\* loop that has exited stays exited: from then on no line is handed to
\* processLine, no event is published, and Start's result stands.
C21_LoopExitIsFinal ==
  /\ [][pc = "exited" =>
          /\ pc' = "exited"
          /\ history' = history
          /\ published' = published
          /\ started' = started]_vars
  /\ (cmd = "exited") ~> (pc = "exited")

\* tail has died after the loop had processed a line; the loop has left
\* with a line still to come and without Stop having been called
C21_Witness ==
  /\ pc = "exited"
  /\ cmd = "exited"
  /\ stopChan = "open"
  /\ NumLines > 0
  /\ unread.new > 0

(* ---------------------------------------------------------------------- *)
(* C22                                                                    *)
(* ---------------------------------------------------------------------- *)
\* the line matches neither loginPattern nor any of the logoutPatterns
NoPatternMatches(line) ==
  /\ Len(FindStringSubmatch(loginPattern, line)) = 0
  /\ \A k \in 1..Len(logoutPatterns) :
       Len(FindStringSubmatch(logoutPatterns[k], line)) = 0

\* C22: a call of processLine on a line that matches no pattern leaves the
\* Session Table and the DedupRecord as they are, publishes no event and
\* schedules no cleanup task.
C22_IgnoredLineChangesNothing ==
  [][(/\ Len(history') = Len(history) + 1
      /\ NoPatternMatches(history'[Len(history')].line)) =>
       /\ loginRecords' = loginRecords
       /\ logoutRecords' = logoutRecords
       /\ cleanups' = cleanups
       /\ published' = published
       /\ eventChan' = eventChan
       /\ pending' = pending]_vars

\* a "Failed password" line has been processed while the Session Table,
\* the DedupRecord and the set of cleanup tasks were not empty
C22_Witness ==
  /\ NumLines >= 2
  /\ history[NumLines].line # << >>
  /\ NoPatternMatches(history[NumLines].line)
  /\ history[NumLines].result = "ignored"
  /\ history[NumLines].dedup # EmptyMap
  /\ logoutRecords # EmptyMap
  /\ cleanups # EmptyMap
  /\ published # << >>

(* ---------------------------------------------------------------------- *)
(* C23                                                                    *)
(* ---------------------------------------------------------------------- *)
\* the line holds text of the given shape; the leftmost such fragment
Has(line, shape) == \E j \in 1..Len(line) : line[j].shape = shape
Leftmost(line, shape) ==
  line[CHOOSE j \in 1..Len(line) :
         /\ line[j].shape = shape
         /\ \A m \in 1..(j - 1) : line[m].shape # shape]

\* the identity the i-th line was resolved to comes from the fragment of
\* the first pattern that matches, in the order login, Received disconnect,
\* Disconnected from user, session closed; what the fragment does not give
\* comes from the Session Table or is a sentinel
ResolvedByFirstPattern(i) ==
  LET h == history[i]
      line == h.line
  IN IF Has(line, "Accepted")
     THEN LET f == Leftmost(line, "Accepted") IN
          /\ h.result \in {"login", "nosrv"}
          /\ h.id = Identity(f.user, f.ip, f.port)
     ELSE IF Has(line, "ReceivedDisconnect")
     THEN LET f == Leftmost(line, "ReceivedDisconnect") IN
          /\ h.result \in {"logout", "duplicate", "nosrv"}
          /\ h.id.ip = f.ip /\ h.id.port = f.port
          /\ \/ h.id.username = UnknownUser
             \/ \E k \in RecordsAt(h.records, f.ip, f.port) :
                  h.records[k].Username = h.id.username
     ELSE IF Has(line, "DisconnectedFromUser")
     THEN LET f == Leftmost(line, "DisconnectedFromUser") IN
          /\ h.result \in {"logout", "duplicate", "nosrv"}
          /\ h.id = Identity(f.user, f.ip, f.port)
     ELSE IF Has(line, "SessionClosed")
     THEN LET f == Leftmost(line, "SessionClosed") IN
          /\ h.result \in {"logout", "duplicate", "nosrv"}
          /\ h.id.username = f.user
          /\ \/ h.id.ip = UnknownIP /\ h.id.port = UnknownPort
             \/ \E k \in RecordsOf(h.records, f.user) :
                  /\ h.records[k].Ip = h.id.ip
                  /\ h.records[k].Port = h.id.port
     ELSE h.result = "ignored"

\* C23: every processed line publishes at most one event, of the identity
\* the first matching pattern gives (login before the logout patterns, these
\* in their fixed order); a line with a login match is not treated as a
\* logout as well: it writes no DedupRecord entry and starts no cleanup.
C23_FirstPatternDecides ==
  /\ [](\A i \in 1..NumLines :
          /\ Len(PublishedBy(i)) <= 1
          /\ ResolvedByFirstPattern(i)
          /\ \A j \in 1..Len(PublishedBy(i)) :
               /\ PublishedBy(i)[j].Username = history[i].id.username
               /\ PublishedBy(i)[j].IP = history[i].id.ip
               /\ PublishedBy(i)[j].Port = history[i].id.port
               /\ PublishedBy(i)[j].Type =
                    IF Has(history[i].line, "Accepted") THEN TypeLogin ELSE TypeLogout)
  /\ [][(/\ Len(history') = Len(history) + 1
         /\ Has(history'[Len(history')].line, "Accepted")) =>
          /\ logoutRecords' = logoutRecords
          /\ cleanups' = cleanups]_vars

\* a line with "session closed for user alice" before "Disconnected from
\* user bob ..." has published the logout of bob alone, and a line with
\* "Received disconnect" after an "Accepted" has published a login alone
C23_Witness ==
  /\ NumLines = 2
  /\ pc # "send"
  /\ history[1].line = <<SessionClosed("alice"),
                         DisconnectedFromUser("bob", "10.0.0.5", "4422")>>
  /\ PublishedBy(1) = <<Event(TypeLogout, "bob", "10.0.0.5", "4422", history[1].at)>>
  /\ history[2].line = <<ReceivedDisconnect("10.0.0.6", "4433"),
                         Accepted("alice", "10.0.0.5", "4422")>>
  /\ PublishedBy(2) = <<Event(TypeLogin, "alice", "10.0.0.5", "4422", history[2].at)>>

(* ---------------------------------------------------------------------- *)
(* C24                                                                    *)
(* ---------------------------------------------------------------------- *)
\* C24: every event the Notifier Manager receives is handed, in the step
\* that receives it, to a goroutine of its own for every enabled notifier of
\* the list and to no other, with the method of the event's type; whatever
\* the sends already started do (return, fail or stall), the manager can
\* receive the next event whenever there is one, and does.
C24_FanOutNeverWaits ==
  /\ [][Len(received'[1]) = Len(received[1]) + 1 =>
          LET j == Len(received'[1])
              ev == received'[1][j]
              method == IF ev.Type = TypeLogin THEN "SendLoginNotification"
                        ELSE "SendLogoutNotification"
          IN /\ \A n \in DOMAIN notifiers :
                  notifiers[n] =>
                    [notifier |-> n, event |-> j, method |-> method,
                     state |-> "sending"] \in tasks'
             /\ \A t \in tasks' \ tasks :
                  /\ t.event = j
                  /\ t.notifier \in DOMAIN notifiers
                  /\ notifiers[t.notifier]
             /\ tasks \subseteq tasks']_vars
  /\ [](eventChan # << >> => ENABLED HandleEvent)
  /\ \A k \in 1..MaxPublishes : (Len(published) >= k) ~> (Len(received[1]) >= k)

\* the send of the first event to feishu has not returned and the one to
\* dingtalk has failed; the second event has been received all the same and
\* handed to both
C24_Witness ==
  /\ Len(received[1]) = 2
  /\ received[1][1].Type = TypeLogin
  /\ received[1][2].Type = TypeLogout
  /\ [notifier |-> "feishu", event |-> 1, method |-> "SendLoginNotification",
      state |-> "sending"] \in tasks
  /\ [notifier |-> "dingtalk", event |-> 1, method |-> "SendLoginNotification",
      state |-> "err"] \in tasks
  /\ \A n \in NotifierNames :
       \E t \in tasks :
         /\ t.notifier = n
         /\ t.event = 2
         /\ t.method = "SendLogoutNotification"

Reading == {t \in DOMAIN tpc : tpc[t].at = "read"}
Writing == {t \in DOMAIN tpc : tpc[t].at \in {"write", "delete"}}

\* C26: a task that is at a read of the DedupRecord holds the read lock of
\* logoutRecordMutex, a task that is at an insert or a delete holds its
\* write lock; no two tasks are at a write at the same time, and no task is
\* at a read while another is at a write.
C26_DedupRecordUnderMutex ==
  /\ \A t \in Reading : t \in mutex.readers
  /\ \A t \in Writing : mutex.writer = {t}
  /\ Cardinality(Writing) <= 1
  /\ Reading = {} \/ Writing = {}

\* a cleanup goroutine is at its delete while the read loop waits to read
\* the entry of the same key and another cleanup goroutine waits to delete
C26_Witness ==
  /\ tpc[LineTask].at = "RLock"
  /\ \E t \in Writing :
       /\ tpc[t].at = "delete"
       /\ tpc[t].id = tpc[LineTask].id
  /\ \E t \in DOMAIN tpc : tpc[t].at = "Lock"
  /\ logoutRecords # EmptyMap

(* ---------------------------------------------------------------------- *)
(* C27                                                                    *)
(* ---------------------------------------------------------------------- *)
\* a step writes the DedupRecord entry of key / removes it
Inserts(key) ==
  /\ key \in DOMAIN logoutRecords'
  /\ key \notin DOMAIN logoutRecords \/ logoutRecords'[key] # logoutRecords[key]
Removes(key) == key \in DOMAIN logoutRecords /\ key \notin DOMAIN logoutRecords'

\* the step publishes a Logout event of the key, or starts the send of one
Emits(key) ==
  \/ /\ Len(published') = Len(published) + 1
     /\ published'[Len(published')].Type = TypeLogout
     /\ EventKey(published'[Len(published')]) = key
  \/ /\ pc' = "send"
     /\ pending'.Type = TypeLogout
     /\ EventKey(pending') = key

AllKeys == {KeyOf(<<u, e[1], e[2]>>) : u \in Users \cup {UnknownUser},
                                       e \in Endpoints \cup {<<UnknownIP, UnknownPort>>}}

\* an entry is written only by a step that emits a logout of its key
C27_InsertedOnlyOnEmission ==
  [][\A key \in AllKeys : Inserts(key) => Emits(key)]_vars

\* an entry is removed only once its own window has elapsed
C27_RemovedOnlyAfterWindow ==
  [][\A key \in AllKeys :
       Removes(key) => now >= logoutRecords[key] + logoutDeduplicationWindow]_vars

\* the DedupRecord is empty in the end, stopped or not
C27_EventuallyEmpty == <>[](logoutRecords = EmptyMap)

\* C27: a DedupRecord entry is written only by a step that emits a logout
\* of its key, it is removed by its cleanup task, that is once its window
\* has elapsed, and when no further logout is emitted the DedupRecord is
\* empty in the end, also after Stop.
C27_InsertedOnEmissionRemovedAfterWindow ==
  /\ C27_InsertedOnlyOnEmission
  /\ C27_RemovedOnlyAfterWindow
  /\ C27_EventuallyEmpty

(* ---------------------------------------------------------------------- *)
(* C28                                                                    *)
(* ---------------------------------------------------------------------- *)
\* the i-th line is "session closed for user X" read while the Session
\* Table has no record of X / "Received disconnect" from an endpoint the
\* Session Table has no record of
UncorrelatedSessionClosed(i) ==
  /\ history[i].line # << >>
  /\ history[i].line[1].shape = "SessionClosed"
  /\ RecordsOf(history[i].records, history[i].line[1].user) = {}
UncorrelatedDisconnect(i) ==
  /\ history[i].line # << >>
  /\ history[i].line[1].shape = "ReceivedDisconnect"
  /\ RecordsAt(history[i].records, history[i].line[1].ip, history[i].line[1].port) = {}

\* C28: of two uncorrelated "session closed for user X" lines, or two
\* uncorrelated "Received disconnect" lines for the same endpoint, the
\* second read less than one window after the first passed the dedup check,
\* both resolve to the same key made of the sentinels and the second
\* publishes nothing.
C28_SentinelKeysCollide ==
  \A i, j \in 1..NumLines :
    ( /\ i < j
      /\ history[i].line = history[j].line
      /\ \/ UncorrelatedSessionClosed(i) /\ UncorrelatedSessionClosed(j)
         \/ UncorrelatedDisconnect(i) /\ UncorrelatedDisconnect(j)
      /\ history[i].result \in {"logout", "nosrv"}
      /\ history[j].at - history[i].at < logoutDeduplicationWindow )
    => /\ history[i].id = history[j].id
       /\ history[i].id \in
            {Identity(history[i].line[1].user, UnknownIP, UnknownPort),
             Identity(UnknownUser, history[i].line[1].ip, history[i].line[1].port)}
       /\ history[j].result = "duplicate"
       /\ PublishedBy(j) = << >>

(* ---------------------------------------------------------------------- *)
(* C29                                                                    *)
(* ---------------------------------------------------------------------- *)
\* the keys a Session Table entry can have
TableKeys == {KeyOf(s) : s \in Identities}

\* C29: a Session Table entry appears only in a step that hands processLine
\* a login line of its key, and disappears only in a step that publishes a
\* Logout event of exactly its key, whose username and ip are no sentinels;
\* no other step (the clock, a cleanup task, Stop, the end of the read loop,
\* a logout of another key) removes it.
C29_EntryLeavesOnlyByItsLogout ==
  [][\A key \in TableKeys :
       /\ (key \notin DOMAIN loginRecords /\ key \in DOMAIN loginRecords') =>
            /\ Len(history') = Len(history) + 1
            /\ Len(FindStringSubmatch(loginPattern, history'[Len(history')].line)) > 0
            /\ IdKey(history'[Len(history')].id) = key
       /\ (key \in DOMAIN loginRecords /\ key \notin DOMAIN loginRecords') =>
            /\ Len(published') = Len(published) + 1
            /\ published'[Len(published')].Type = TypeLogout
            /\ EventKey(published'[Len(published')]) = key
            /\ published'[Len(published')].Username # UnknownUser
            /\ published'[Len(published')].IP # UnknownIP]_vars

\* the entry of alice is still in the table after the logout of another
\* key has been published, the clock has run to its end, every cleanup
\* task has run, Stop has been called and the read loop has exited
C29_Witness ==
  /\ KeyOf(<<"alice", "10.0.0.5", "4422">>) \in DOMAIN loginRecords
  /\ \E j \in 1..Len(published) :
       /\ published[j].Type = TypeLogout
       /\ published[j].Username = "bob"
  /\ now = MaxTicks * TickLength
  /\ cleanups = EmptyMap
  /\ logoutRecords = EmptyMap
  /\ stopChan = "closed"
  /\ pc = "exited"

(* ---------------------------------------------------------------------- *)
(* C30                                                                    *)
(* ---------------------------------------------------------------------- *)
\* the step is the run of cleanup task c
RunsCleanup(c) ==
  /\ c \in DOMAIN cleanups
  /\ c \notin DOMAIN cleanups' \/ cleanups'[c] < cleanups[c]

\* C30: when a cleanup task removes a DedupRecord entry, the entry is the one
\* written by the emission that started the task (written one window before
\* the task's wake-up time), never one written by a later emission; so a
\* logout line read less than one window after a line of the same key that
\* passed the dedup check is suppressed.
C30_CleanupRemovesOwnEntryOnly ==
  /\ [][\A c \in DOMAIN cleanups :
          (RunsCleanup(c) /\ Removes(c.key)) =>
            logoutRecords[c.key] + logoutDeduplicationWindow = c.wake]_vars
  /\ [](\A i, j \in 1..NumLines :
          ( /\ i < j
            /\ history[i].result \in {"logout", "nosrv"}
            /\ IsLogoutLine(i) /\ IsLogoutLine(j)
            /\ history[i].id = history[j].id
            /\ history[j].at - history[i].at < logoutDeduplicationWindow )
          => history[j].result = "duplicate")

(* ---------------------------------------------------------------------- *)
(* C31                                                                    *)
(* ---------------------------------------------------------------------- *)
\* a Logout event of the key has been published, or its send has begun
LogoutPublishedFor(key) ==
  \/ \E n \in 1..Len(published) :
       published[n].Type = TypeLogout /\ EventKey(published[n]) = key
  \/ pc = "send" /\ pending.Type = TypeLogout /\ EventKey(pending) = key

\* C31: every logout line suppressed as a duplicate comes less than one
\* window after a published Logout event of its key, and every key in the
\* DedupRecord is the key of a Logout event that was published.
C31_SuppressedOnlyAfterPublished ==
  /\ \A j \in 1..NumLines :
       history[j].result = "duplicate" =>
         \E n \in 1..Len(published) :
           /\ published[n].Type = TypeLogout
           /\ EventKey(published[n]) = IdKey(history[j].id)
           /\ published[n].Timestamp <= history[j].at
           /\ history[j].at - published[n].Timestamp < logoutDeduplicationWindow
  /\ \A key \in DOMAIN logoutRecords : LogoutPublishedFor(key)

(* ---------------------------------------------------------------------- *)
(* C32                                                                    *)
(* ---------------------------------------------------------------------- *)
\* the lines before the j-th that resolved to the same key and passed the
\* dedup check
PassedBefore(j) ==
  {i \in 1..(j - 1) :
     /\ IsLogoutLine(i)
     /\ history[i].id = history[j].id
     /\ history[i].result \in {"logout", "nosrv"}}

\* the part of C32 that holds: a step that suppresses a logout line as a
\* duplicate leaves the Session Table, the DedupRecord and the cleanup
\* tasks as they are and publishes nothing; the time the suppressed line
\* was compared with is the time of the last line of its key that passed
\* the dedup check, whatever suppressed lines came in between.
C32_DuplicateChangesNothing ==
  /\ [][(/\ Len(history') = Len(history) + 1
         /\ history'[Len(history')].result = "duplicate") =>
          /\ loginRecords' = loginRecords
          /\ logoutRecords' = logoutRecords
          /\ cleanups' = cleanups
          /\ published' = published
          /\ eventChan' = eventChan
          /\ pending' = pending]_vars
  /\ [](\A j \in 1..NumLines :
          history[j].result = "duplicate" =>
            /\ PassedBefore(j) # {}
            /\ \E i \in PassedBefore(j) :
                 /\ \A m \in PassedBefore(j) : m <= i
                 /\ history[j].dedup[IdKey(history[j].id)] = history[i].at)

\* a logout has been published, the same line has been suppressed half a
\* window later, and the line has been published again one window after
\* the first: the suppressed line has not extended the window
C32_NotExtended ==
  /\ NumLines = 3
  /\ pc # "send"
  /\ history[1].result = "logout"
  /\ history[2].result = "duplicate"
  /\ history[3].result = "logout"
  /\ history[2].id = history[1].id
  /\ history[3].id = history[1].id
  /\ history[2].at > history[1].at
  /\ history[3].at - history[1].at = logoutDeduplicationWindow
  /\ Len(published) = 2

\* C32: a step that suppresses a logout line as a duplicate changes neither
\* the Session Table nor the DedupRecord nor the cleanup tasks, and the time
\* the suppressed line was compared with is the time of the last Logout
\* event published for its key.
C32_WindowFromLastEmitted ==
  /\ C32_DuplicateChangesNothing
  /\ [](\A j \in 1..NumLines :
          history[j].result = "duplicate" =>
            \E n \in 1..history[j].npub :
              /\ published[n].Type = TypeLogout
              /\ EventKey(published[n]) = IdKey(history[j].id)
              /\ published[n].Timestamp = history[j].dedup[IdKey(history[j].id)]
              /\ \A m \in (n + 1)..history[j].npub :
                   ~(published[m].Type = TypeLogout
                     /\ EventKey(published[m]) = IdKey(history[j].id)))

\* C33: when Monitor.Start has returned an error, no sub-monitor it started
\* is running.
C33_NothingRunningAfterStartError ==
  started \in {"errPath", "errOpen", "errServer"} => samplers = {}

\* C34: a call of Monitor.Stop made when the stop channel is already closed
\* panics in close(m.stopChan) and touches nothing else: the second call
\* made on a Monitor never returns normally.
C34_SecondStopPanics ==
  /\ [][(stopCall'.n = stopCall.n + 1 /\ stopChan = "closed") =>
          /\ stopCall'.pc = "panicked"
          /\ base' = base /\ stopChan' = stopChan /\ samplers' = samplers]_vars
  /\ [](stopCall.n >= 2 => stopCall.pc = "panicked")

\* Stop has been called once and has returned with every sub-monitor
\* stopped, and has been called again
C34_Witness ==
  /\ stopCall.n = 2
  /\ stopCall.pc = "panicked"
  /\ stopChan = "closed"
  /\ \A s \in BaseSamplers : base[s].pc = "exited"

\* BaseMonitor.Stop of sub-monitor s, called by Monitor.Stop, has returned
StopReturnedFor(s) ==
  \E k \in 1..Len(BaseStopOrder) : BaseStopOrder[k] = s /\ stopCall.i > k

\* the goroutine of sub-monitor s has returned and has called Done
SamplerExited(s) ==
  s \in DOMAIN base /\ base[s].pc = "exited" /\ base[s].wg = 0

\* the stop channel of sub-monitor s has been closed
SamplerStopped(s) == s \in DOMAIN base /\ base[s].stopChan = "closed"

\* C35: a sub-monitor goroutine whose stop channel has been closed exits;
\* BaseMonitor.Stop returns only when the goroutine has called Done; and no
\* sample is taken once Stop has returned.
C35_StopWaitsForSampler ==
  /\ \A s \in BaseSamplers :
       SamplerStopped(s) ~> (SamplerExited(s) /\ StopReturnedFor(s))
  /\ [](\A s \in BaseSamplers : StopReturnedFor(s) => SamplerExited(s))
  /\ [][\A s \in BaseSamplers :
          StopReturnedFor(s) => base'[s].samples = base[s].samples]_vars

\* sub-monitor s has taken every sample of its ticker and has exited
SampledAndExited(s) ==
  SamplerExited(s) /\ base[s].samples = MaxSamples /\ ~SamplesAtOnce(s)

\* Stop has returned after every sub-monitor has exited, the heartbeat
\* goroutine having taken its sample
C35_Witness ==
  /\ stopCall.pc = "returned"
  /\ \A s \in BaseSamplers : SamplerExited(s) /\ StopReturnedFor(s)
  /\ SampledAndExited("HeartbeatMonitor")
  /\ base["ServerMonitor"].samples = 1

\* the Session Table entries the i-th call has removed
RemovedBy(i) == DOMAIN history[i].records \ DOMAIN TableAfter(i)

\* the keys of the events the i-th call has published
KeysPublishedBy(i) ==
  {EventKey(PublishedBy(i)[n]) : n \in 1..Len(PublishedBy(i))}

EmittedWithinWindow(j) ==
  {n \in 1..history[j].npub :
     /\ published[n].Type = TypeLogout
     /\ EventKey(published[n]) = IdKey(history[j].id)
     /\ history[j].at - published[n].Timestamp < logoutDeduplicationWindow}

\* the part of C37 that holds: a login line leaves the DedupRecord and its
\* cleanup tasks as they are, whatever its key
C37_LoginKeepsDedupRecord ==
  [][(/\ Len(history') = Len(history) + 1
      /\ \E n \in DOMAIN history'[Len(history')].line :
           history'[Len(history')].line[n].shape = "Accepted") =>
       (logoutRecords' = logoutRecords /\ cleanups' = cleanups)]_vars

\* C37: a login line does not touch the DedupRecord, and a logout line is
\* suppressed exactly when a Logout event of its key was published less
\* than one window before it, whatever logins came in between; the Session
\* Table entry of the suppressed line's key then remains.
C37_SuppressionIgnoresLogins ==
  /\ C37_LoginKeepsDedupRecord
  /\ [](\A j \in 1..NumLines :
          (IsLogoutLine(j) /\ Returned(j)) =>
            /\ (history[j].result = "duplicate") <=> (EmittedWithinWindow(j) # {})
            /\ history[j].result = "duplicate" =>
                 TableAfter(j) = history[j].records)

\* a logout of K has been published, K has logged in again, and the logout
\* of the new session, half a window after the first, has been suppressed:
\* the new session is still in the Session Table
C37_Relogin ==
  /\ NumLines = 3
  /\ history[1].result = "logout" /\ IsLogoutLine(1)
  /\ history[2].result = "login"
  /\ history[2].id = history[1].id
  /\ history[3].result = "duplicate"
  /\ history[3].id = history[1].id
  /\ IdKey(history[3].id) \in DOMAIN loginRecords

\* C38: every login line processed while the server identity is resolvable
\* publishes its Login event, whatever the Session Table and the DedupRecord
\* hold; when the table already held the key, the entry is overwritten with
\* the time of the line and the table keeps its keys.
C38_LoginNeverDeduplicated ==
  \A i \in 1..NumLines : \A s \in Identities :
    ( /\ history[i].line = <<Accepted(s[1], s[2], s[3])>>
      /\ history[i].result = "login"
      /\ Returned(i) )
    => /\ PublishedBy(i) = <<LoginEvent(s, history[i].at)>>
       /\ TableAfter(i)[KeyOf(s)] = LoginEntry(s, history[i].at)
       /\ KeyOf(s) \in DOMAIN history[i].records =>
            DOMAIN TableAfter(i) = DOMAIN history[i].records

\* the same login line has been processed three times, the last time later
\* than the first: three Login events are published, the table holds one
\* entry, and the entry carries the time of the last line
C38_Witness ==
  /\ NumLines = 3
  /\ pc # "send"
  /\ \E s \in Identities :
       /\ \A i \in 1..3 : /\ history[i].line = <<Accepted(s[1], s[2], s[3])>>
                          /\ history[i].result = "login"
                          /\ Len(PublishedBy(i)) = 1
       /\ history[3].at > history[1].at
       /\ DOMAIN loginRecords = {KeyOf(s)}
       /\ loginRecords[KeyOf(s)].LastLoginTime = history[3].at

\* the configured notifiers whose creation and whose test message both
\* succeeded
CreatedAndTested ==
  {n \in NotifierNames :
     /\ notifierConfigs[n].enabled
     /\ notifierConfigs[n].creates
     /\ notifierConfigs[n].test = "ok"}

\* C39: when InitNotifiers returns, the dispatch list holds exactly the
\* notifiers that were created and whose Initialize returned no error, and
\* the call returns an error exactly when that list is empty; a notifier
\* that was skipped is never in the list and is never handed an event.
C39_ListIsTheInitialized ==
  /\ [][(initErr = "none" /\ initErr' # "none") =>
          /\ DOMAIN notifiers' = CreatedAndTested
          /\ ((initErr' = "err") <=> (DOMAIN notifiers' = {}))]_vars
  /\ [](DOMAIN notifiers \subseteq CreatedAndTested)
  /\ [](\A t \in tasks : t.notifier \in CreatedAndTested)

\* feishu was created and its test message went through, dingtalk was
\* created and its test message failed: InitNotifiers has returned nil and
\* two events have been handed to feishu alone
C39_Witness ==
  /\ initErr = "nil"
  /\ notifierConfigs["feishu"] = [enabled |-> TRUE, creates |-> TRUE, test |-> "ok"]
  /\ notifierConfigs["dingtalk"].enabled
  /\ notifierConfigs["dingtalk"].creates
  /\ notifierConfigs["dingtalk"].test = "timeout"
  /\ DOMAIN notifiers = {"feishu"}
  /\ Len(received[1]) = 2
  /\ {t.notifier : t \in tasks} = {"feishu"}
  /\ Cardinality(tasks) = 2

====
